---- MODULE Spec2Model ----
(***************************************************************************)
(* Verification model of beads_viewer.                                     *)
(*                                                                         *)
(* Part 1: pkg/ui/background_worker.go, the BackgroundWorker that builds   *)
(*         DataSnapshots off the UI thread (pkg/ui/snapshot.go).           *)
(* Part 2: getTopKeys of the analysis package (top-K selection).           *)
(***************************************************************************)
EXTENDS Integers, Sequences, FiniteSets, TLC

(***************************************************************************)
(* Bounds                                                                  *)
(***************************************************************************)
\* Number of goroutines started by "go w.process()" that may exist at once.
MaxProcs == 2

(***************************************************************************)
(* Threads                                                                 *)
(***************************************************************************)
\* The processLoop goroutine (it calls process() inline).
LoopT == 0
\* Goroutines spawned by "go w.process()".
Procs == 1..MaxProcs
Threads == {LoopT} \cup Procs
\* The caller of the public API (Start, Stop, TriggerRefresh, GetSnapshot).
UI == -2
\* w.mu is not held by anybody.
MuFree == -1

(***************************************************************************)
(* WorkerState                                                             *)
(***************************************************************************)
WorkerIdle == "WorkerIdle"
WorkerProcessing == "WorkerProcessing"
WorkerStopped == "WorkerStopped"
WorkerState == {WorkerIdle, WorkerProcessing, WorkerStopped}

(***************************************************************************)
(* The beads file and the issues it holds                                  *)
(***************************************************************************)
StatusOpen == "open"
StatusClosed == "closed"
IssuesA == <<[ID |-> "test-1", Status |-> StatusOpen]>>
IssuesB == <<[ID |-> "test-1", Status |-> StatusOpen],
             [ID |-> "test-2", Status |-> StatusClosed]>>
\* What loader.LoadIssuesFromFile returns for a file: (issues, err).
ReadableFiles == {[Err |-> FALSE, Issues |-> i] : i \in {IssuesA, IssuesB}}
\* A file LoadIssuesFromFile fails on.
Unreadable == [Err |-> TRUE, Issues |-> <<>>]
FileContents == ReadableFiles \cup {Unreadable}
BeadsFile == "beads.jsonl"

(***************************************************************************)
(* DataSnapshot and SnapshotBuilder.Build                                  *)
(***************************************************************************)
\* A *DataSnapshot is <<>> (nil) or <<s>> (a pointer to the snapshot s).
Nil == <<>>

RECURSIVE CountStatus(_, _)
CountStatus(issues, closed) ==
    IF issues = <<>> THEN 0
    ELSE (IF (Head(issues).Status = StatusClosed) = closed THEN 1 ELSE 0)
         + CountStatus(Tail(issues), closed)

\* A Build that returns the struct before the statistics and the list items
\* are computed.
BuildUnfinished(issues) ==
    <<[Issues |-> issues, CountOpen |-> 0, CountClosed |-> 0, ListItems |-> 0]>>

Build(issues) ==
    <<[Issues |-> issues,
       CountOpen |-> CountStatus(issues, FALSE),
       CountClosed |-> CountStatus(issues, TRUE),
       ListItems |-> Len(issues)]>>

VARIABLES
    state,           \* w.state
    dirty,           \* w.dirty
    snapshot,        \* w.snapshot
    mu,              \* holder of w.mu, or MuFree
    pc,              \* position of every thread that may run process()
    result,          \* process(): the local "snapshot" of each thread
    cpc,             \* position of the API caller
    file,            \* what loading the beads file returns
    watcherRunning,  \* the file watcher is started and not stopped
    changedPending,  \* a notification waits in watcher.Changed()
    cancelled,       \* w.ctx is cancelled
    doneClosed,      \* w.done is closed
    stopReturned,    \* a call of Stop has returned
    runs,            \* history: the computations in flight, in start order
                     \* (kept by the specification that studies that order)
    tkMap,           \* getTopKeys: the metric map m
    tkLimit,         \* getTopKeys: limit
    tkRuns,          \* getTopKeys: the results of the calls made so far
    gEdges,          \* analysis: the edges (dependent, target) of the graph
    impact,          \* analysis: GraphStats.CriticalPathScore
    cycRuns,         \* analysis: GraphStats.Cycles of the runs made so far
    gvIssues,        \* GraphModel.issues
    blockers,        \* GraphModel.blockers
    dependents,      \* GraphModel.dependents
    sortedIDs,       \* GraphModel.sortedIDs
    selectedIdx,     \* GraphModel.selectedIdx (0-based, as in the code)
    gvOut,           \* what the last consumer of the dependencies returned
    cEntries,        \* cass.Cache: entries, key -> CacheEntry
    cOrder,          \* cass.Cache: order, the keys from least recently used
    cNow,            \* cass.Cache: what c.now() returns
    cGot,            \* cass.Cache: the Get just made and what it returned
    cLastSet,        \* history: the last Set of every key, hint and time
    cTouch,          \* history: the cached keys, least recently touched first
    cSetLog,         \* history: the Set just made, what it found and removed
    hEntries,        \* HistoryCache.entries, key string -> CacheEntry
    hOrder,          \* HistoryCache.order, the key strings, oldest first
    hNow,            \* HistoryCache: what time.Now() returns
    hTouch,          \* history: the cached keys, least recently accessed first
    hLog,            \* history: the call just made, what it found and returned
    vIndex,          \* VectorIndex: the entries, issue ID -> content hash and vector
    vSync,           \* SyncVectorIndex: the call just made, its arguments and results
    columns,         \* BoardModel.columns, by column index 0..3
    focusedCol,      \* BoardModel.focusedCol
    selectedRow,     \* BoardModel.selectedRow, by column index 0..3
    gvStats,         \* GraphModel.insights.Stats, Nil without insights
    gvRanks,         \* GraphModel.rank*: the rank maps, by metric
    rankRuns         \* history: the rank maps of the rebuilds made so far

workerVars == <<state, dirty, snapshot, mu, pc, result, cpc, file,
                watcherRunning, changedPending, cancelled, doneClosed,
                stopReturned, runs>>
topkVars == <<tkMap, tkLimit, tkRuns>>
analysisVars == <<gEdges, impact, cycRuns>>
graphViewVars == <<gvIssues, blockers, dependents, sortedIDs, selectedIdx,
                   gvOut>>
cacheVars == <<cEntries, cOrder, cNow, cGot, cLastSet, cTouch, cSetLog>>
historyVars == <<hEntries, hOrder, hNow, hTouch, hLog>>
syncVars == <<vIndex, vSync>>
boardVars == <<columns, focusedCol, selectedRow>>
rankVars == <<gvStats, gvRanks, rankRuns>>
vars == <<workerVars, topkVars, analysisVars, graphViewVars, cacheVars,
          historyVars, syncVars, boardVars, rankVars>>
\* What the actions of one component leave alone.
outsideWorker == <<topkVars, analysisVars, graphViewVars, cacheVars,
                   historyVars, syncVars, boardVars, rankVars>>
outsideTopK == <<workerVars, analysisVars, graphViewVars, cacheVars,
                 historyVars, syncVars, boardVars, rankVars>>
outsideAnalysis == <<workerVars, topkVars, graphViewVars, cacheVars,
                     historyVars, syncVars, boardVars, rankVars>>
outsideGraphView == <<workerVars, topkVars, analysisVars, cacheVars,
                      historyVars, syncVars, boardVars, rankVars>>
outsideCache == <<workerVars, topkVars, analysisVars, graphViewVars,
                  historyVars, syncVars, boardVars, rankVars>>
outsideHistory == <<workerVars, topkVars, analysisVars, graphViewVars,
                    cacheVars, syncVars, boardVars, rankVars>>
outsideSync == <<workerVars, topkVars, analysisVars, graphViewVars,
                 cacheVars, historyVars, boardVars, rankVars>>
outsideBoard == <<workerVars, topkVars, analysisVars, graphViewVars,
                  cacheVars, historyVars, syncVars, rankVars>>
\* rebuildGraph with insights writes the graph view and its ranks.
outsideRanks == <<workerVars, topkVars, analysisVars, cacheVars,
                  historyVars, syncVars, boardVars>>

\* w.beadsPath of the worker under study (WorkerConfig.BeadsPath)
beadsPath == BeadsFile

\* buildSnapshot: nil without a path or when the load fails.
buildSnapshot(path, content) ==
    IF path = "" THEN Nil
    ELSE IF content.Err THEN Nil
    ELSE Build(content.Issues)

\* NewBackgroundWorker
NewBackgroundWorker ==
    /\ state = WorkerIdle
    /\ dirty = FALSE
    /\ snapshot = Nil
    /\ mu = MuFree
    /\ pc = [t \in Threads |-> IF t = LoopT THEN "notStarted" ELSE "free"]
    /\ result = [t \in Threads |-> Nil]
    /\ cpc = "idle"
    /\ file \in FileContents
    /\ watcherRunning = FALSE
    /\ changedPending = FALSE
    /\ cancelled = FALSE
    /\ doneClosed = FALSE
    /\ stopReturned = FALSE

\* The history of the computations is not recorded.
NoRunHistory == runs = [Recorded |-> FALSE, Order |-> <<>>]
\* The history of the computations is recorded, and no computation has
\* started yet.
RunHistory == runs = [Recorded |-> TRUE, Order |-> <<>>]

\* No top-K selection is under study.
NoTopK ==
    /\ tkMap = <<>>
    /\ tkLimit = 0
    /\ tkRuns = <<>>

\* No dependency graph is under analysis.
NoAnalysis ==
    /\ gEdges = {}
    /\ impact = <<>>
    /\ cycRuns = <<>>

\* No graph view is open.
NoGraphView ==
    /\ gvIssues = <<>>
    /\ blockers = <<>>
    /\ dependents = <<>>
    /\ sortedIDs = <<>>
    /\ selectedIdx = 0
    /\ gvOut = <<>>

\* NewCache: an empty cache that nothing ever reads or writes.
NoCache ==
    /\ cEntries = <<>>
    /\ cOrder = <<>>
    /\ cNow = 0
    /\ cGot = <<>>
    /\ cLastSet = <<>>
    /\ cTouch = <<>>
    /\ cSetLog = <<>>

\* NewHistoryCache: an empty cache that nothing ever reads or writes.
NoHistoryCache ==
    /\ hEntries = <<>>
    /\ hOrder = <<>>
    /\ hNow = 0
    /\ hTouch = <<>>
    /\ hLog = <<>>

\* No vector index is being synchronised.
NoVectorIndex ==
    /\ vIndex = <<>>
    /\ vSync = <<>>

\* No Kanban board is shown.
NoBoard ==
    /\ columns = <<>>
    /\ focusedCol = 0
    /\ selectedRow = <<>>

\* No graph view with insights is built.
NoRanks ==
    /\ gvStats = <<>>
    /\ gvRanks = <<>>
    /\ rankRuns = <<>>

Init ==
    /\ NewBackgroundWorker
    /\ NoRunHistory
    /\ NoTopK
    /\ NoAnalysis
    /\ NoGraphView
    /\ NoCache
    /\ NoHistoryCache
    /\ NoVectorIndex
    /\ NoBoard
    /\ NoRanks

(***************************************************************************)
(* process(), run by a spawned goroutine or inline by processLoop          *)
(***************************************************************************)
FreeSlots == {p \in Procs : pc[p] = "free"}
\* The slot a new goroutine takes.
NewSlot == CHOOSE p \in FreeSlots : \A q \in FreeSlots : p <= q

\* Where thread t is after process() returned.
Returned(t) == IF t = LoopT THEN "select" ELSE "free"

\* History of the computations: process() passes line 184 and joins the
\* computations in flight, as the one that started last.
RunStarted(rs, t) ==
    IF rs.Recorded
    THEN [rs EXCEPT !.Order = Append(@, [T |-> t, Late |-> FALSE])]
    ELSE rs
\* process() publishes at line 192: its computation is completed, and the
\* computations in flight that started before it are late from now on.
RunCompleted(rs, t) ==
    LET o == rs.Order
        i == CHOOSE k \in DOMAIN o : o[k].T = t
    IN  IF rs.Recorded
        THEN [rs EXCEPT !.Order =
                 [k \in 1..(Len(o) - 1) |->
                     IF k < i THEN [o[k] EXCEPT !.Late = TRUE]
                              ELSE o[k + 1]]]
        ELSE rs

\* line 179: w.mu.Lock()
ProcLock1(t) ==
    /\ pc[t] = "p_lock1"
    /\ mu = MuFree
    /\ mu' = t
    /\ pc' = [pc EXCEPT ![t] = "p_cs1"]
    /\ UNCHANGED <<state, dirty, snapshot, result, cpc, file, watcherRunning,
                   changedPending, cancelled, doneClosed, stopReturned>>
    /\ UNCHANGED <<runs, outsideWorker>>

\* process() that keeps w.mu while it builds (the Unlock of line 186 is lost).
ProcStartKeepsLock(t) ==
    /\ pc[t] = "p_cs1"
    /\ mu = t
    /\ IF state = WorkerStopped
       THEN /\ pc' = [pc EXCEPT ![t] = Returned(t)]
            /\ mu' = MuFree
            /\ UNCHANGED <<state, dirty, runs>>
       ELSE /\ state' = WorkerProcessing
            /\ dirty' = FALSE
            /\ mu' = mu
            /\ pc' = [pc EXCEPT ![t] = "p_build"]
            /\ runs' = RunStarted(runs, t)
    /\ UNCHANGED <<snapshot, result, cpc, file, watcherRunning,
                   changedPending, cancelled, doneClosed, stopReturned>>
    /\ UNCHANGED outsideWorker

\* lines 180-186: return when stopped, else mark processing and unlock
ProcStart(t) ==
    /\ pc[t] = "p_cs1"
    /\ mu = t
    /\ IF state = WorkerStopped
       THEN /\ pc' = [pc EXCEPT ![t] = Returned(t)]
            /\ UNCHANGED <<state, dirty, runs>>
       ELSE /\ state' = WorkerProcessing
            /\ dirty' = FALSE
            /\ pc' = [pc EXCEPT ![t] = "p_build"]
            /\ runs' = RunStarted(runs, t)
    /\ mu' = MuFree
    /\ UNCHANGED <<snapshot, result, cpc, file, watcherRunning,
                   changedPending, cancelled, doneClosed, stopReturned>>
    /\ UNCHANGED outsideWorker

\* line 189: snapshot := w.buildSnapshot(), without the lock
ProcBuild(t) ==
    /\ pc[t] = "p_build"
    /\ result' = [result EXCEPT ![t] = buildSnapshot(beadsPath, file)]
    /\ pc' = [pc EXCEPT ![t] = "p_lock2"]
    /\ UNCHANGED <<state, dirty, snapshot, mu, cpc, file, watcherRunning,
                   changedPending, cancelled, doneClosed, stopReturned>>
    /\ UNCHANGED <<runs, outsideWorker>>

\* line 191: w.mu.Lock()
ProcLock2(t) ==
    /\ pc[t] = "p_lock2"
    /\ mu = MuFree
    /\ mu' = t
    /\ pc' = [pc EXCEPT ![t] = "p_cs2"]
    /\ UNCHANGED <<state, dirty, snapshot, result, cpc, file, watcherRunning,
                   changedPending, cancelled, doneClosed, stopReturned>>
    /\ UNCHANGED <<runs, outsideWorker>>

\* process() that drops its result when a newer trigger has superseded it.
ProcPublishUnlessSuperseded(t) ==
    /\ pc[t] = "p_cs2"
    /\ mu = t
    /\ snapshot' = IF dirty THEN snapshot ELSE result[t]
    /\ state' = WorkerIdle
    /\ mu' = MuFree
    /\ pc' = [pc EXCEPT ![t] = IF dirty THEN "p_again" ELSE Returned(t)]
    /\ result' = [result EXCEPT ![t] = Nil]
    /\ runs' = RunCompleted(runs, t)
    /\ UNCHANGED <<dirty, cpc, file, watcherRunning, changedPending,
                   cancelled, doneClosed, stopReturned>>
    /\ UNCHANGED outsideWorker

\* lines 192-205: publish, wasDirty := w.dirty, back to idle, unlock, notify;
\* with wasDirty false process() returns, else it goes on to line 204
ProcPublish(t) ==
    /\ pc[t] = "p_cs2"
    /\ mu = t
    /\ snapshot' = result[t]
    /\ state' = WorkerIdle
    /\ mu' = MuFree
    /\ pc' = [pc EXCEPT ![t] = IF dirty THEN "p_again" ELSE Returned(t)]
    /\ result' = [result EXCEPT ![t] = Nil]
    /\ runs' = RunCompleted(runs, t)
    /\ UNCHANGED <<dirty, cpc, file, watcherRunning, changedPending,
                   cancelled, doneClosed, stopReturned>>
    /\ UNCHANGED outsideWorker

\* line 204 (wasDirty): go w.process(), then process() returns.  A spawned
\* goroutine ends here, and the new goroutine takes its slot.
ProcAgain(t) ==
    /\ pc[t] = "p_again"
    /\ IF t = LoopT
       THEN /\ FreeSlots # {}
            /\ pc' = [pc EXCEPT ![t] = Returned(t), ![NewSlot] = "p_lock1"]
       ELSE pc' = [pc EXCEPT ![t] = "p_lock1"]
    /\ UNCHANGED <<state, dirty, snapshot, mu, result, cpc, file,
                   watcherRunning, changedPending, cancelled, doneClosed,
                   stopReturned>>
    /\ UNCHANGED <<runs, outsideWorker>>

(***************************************************************************)
(* processLoop                                                             *)
(***************************************************************************)
\* line 168: case <-w.ctx.Done(): return, and the deferred close(w.done)
LoopCtxDone ==
    /\ pc[LoopT] = "select"
    /\ cancelled
    /\ pc' = [pc EXCEPT ![LoopT] = "exited"]
    /\ doneClosed' = TRUE
    /\ UNCHANGED <<state, dirty, snapshot, mu, result, cpc, file,
                   watcherRunning, changedPending, cancelled, stopReturned>>
    /\ UNCHANGED <<runs, outsideWorker>>

\* line 171: case <-w.watcher.Changed(): w.process()
LoopChanged ==
    /\ pc[LoopT] = "select"
    /\ changedPending
    /\ changedPending' = FALSE
    /\ pc' = [pc EXCEPT ![LoopT] = "p_lock1"]
    /\ UNCHANGED <<state, dirty, snapshot, mu, result, cpc, file,
                   watcherRunning, cancelled, doneClosed, stopReturned>>
    /\ UNCHANGED <<runs, outsideWorker>>

(***************************************************************************)
(* The file and its watcher                                                *)
(***************************************************************************)
\* The beads file is rewritten; a running watcher raises Changed().
FileChange ==
    /\ \E c \in FileContents \ {file} : file' = c
    /\ changedPending' = (changedPending \/ watcherRunning)
    /\ UNCHANGED <<state, dirty, snapshot, mu, pc, result, cpc,
                   watcherRunning, cancelled, doneClosed, stopReturned>>
    /\ UNCHANGED <<runs, outsideWorker>>

\* The beads file is rewritten with the content it had.
FileTouch ==
    /\ watcherRunning
    /\ ~changedPending
    /\ changedPending' = TRUE
    /\ UNCHANGED <<state, dirty, snapshot, mu, pc, result, cpc, file,
                   watcherRunning, cancelled, doneClosed, stopReturned>>
    /\ UNCHANGED <<runs, outsideWorker>>

(***************************************************************************)
(* The public API, called from the UI thread                               *)
(***************************************************************************)
\* Start: w.watcher.Start() and go w.processLoop()
Start ==
    /\ cpc = "idle"
    /\ pc[LoopT] = "notStarted"
    /\ ~cancelled
    /\ beadsPath # ""
    /\ watcherRunning' = TRUE
    /\ pc' = [pc EXCEPT ![LoopT] = "select"]
    /\ UNCHANGED <<state, dirty, snapshot, mu, result, cpc, file,
                   changedPending, cancelled, doneClosed, stopReturned>>
    /\ UNCHANGED <<runs, outsideWorker>>

\* TriggerRefresh lines 132-138, under w.mu
TriggerRefresh ==
    /\ cpc = "idle"
    /\ mu = MuFree
    /\ IF state = WorkerProcessing
       THEN /\ dirty' = TRUE
            /\ UNCHANGED cpc
       ELSE /\ cpc' = "t_spawn"
            /\ UNCHANGED dirty
    /\ UNCHANGED <<state, snapshot, mu, pc, result, file, watcherRunning,
                   changedPending, cancelled, doneClosed, stopReturned>>
    /\ UNCHANGED <<runs, outsideWorker>>

\* TriggerRefresh that returns without starting process().
TriggerSpawnDropped ==
    /\ cpc = "t_spawn"
    /\ cpc' = "idle"
    /\ UNCHANGED <<state, dirty, snapshot, mu, pc, result, file,
                   watcherRunning, changedPending, cancelled, doneClosed,
                   stopReturned>>
    /\ UNCHANGED <<runs, outsideWorker>>

\* TriggerRefresh line 141: go w.process()
TriggerSpawn ==
    /\ cpc = "t_spawn"
    /\ FreeSlots # {}
    /\ pc' = [pc EXCEPT ![NewSlot] = "p_lock1"]
    /\ cpc' = "idle"
    /\ UNCHANGED <<state, dirty, snapshot, mu, result, file, watcherRunning,
                   changedPending, cancelled, doneClosed, stopReturned>>
    /\ UNCHANGED <<runs, outsideWorker>>

\* Stop lines 108-114, under w.mu
Stop ==
    /\ cpc = "idle"
    /\ mu = MuFree
    /\ IF state = WorkerStopped
       THEN /\ stopReturned' = TRUE
            /\ UNCHANGED <<state, cpc>>
       ELSE /\ state' = WorkerStopped
            /\ cpc' = "s_cancel"
            /\ UNCHANGED stopReturned
    /\ UNCHANGED <<dirty, snapshot, mu, pc, result, file, watcherRunning,
                   changedPending, cancelled, doneClosed>>
    /\ UNCHANGED <<runs, outsideWorker>>

\* Stop lines 116-120: w.cancel(), w.watcher.Stop()
StopCancel ==
    /\ cpc = "s_cancel"
    /\ cancelled' = TRUE
    /\ watcherRunning' = FALSE
    /\ cpc' = "s_wait"
    /\ UNCHANGED <<state, dirty, snapshot, mu, pc, result, file,
                   changedPending, doneClosed, stopReturned>>
    /\ UNCHANGED <<runs, outsideWorker>>

\* Stop lines 123-127: return when w.done is closed or when the 2 s timeout
\* fires, so Stop returns whether or not processLoop has exited.
StopWait ==
    /\ cpc = "s_wait"
    /\ cpc' = "idle"
    /\ stopReturned' = TRUE
    /\ UNCHANGED <<state, dirty, snapshot, mu, pc, result, file,
                   watcherRunning, changedPending, cancelled, doneClosed>>
    /\ UNCHANGED <<runs, outsideWorker>>

\* State(): w.state under the read lock
State == state

\* GetSnapshot(): w.snapshot under the read lock
GetSnapshot == snapshot

Process ==
    \E t \in Threads :
        \/ ProcLock1(t)
        \/ ProcStart(t)
        \/ ProcBuild(t)
        \/ ProcLock2(t)
        \/ ProcPublish(t)
        \/ ProcAgain(t)

Next ==
    \/ Process
    \/ LoopCtxDone
    \/ LoopChanged
    \/ FileChange
    \/ Start
    \/ TriggerRefresh
    \/ TriggerSpawn
    \/ Stop
    \/ StopCancel
    \/ StopWait

Spec == Init /\ [][Next]_vars

(***************************************************************************)
(* Scheduling: a goroutine that can take a step does take it, and          *)
(* sync.Mutex does not starve a goroutine that waits in Lock() (hence      *)
(* strong fairness: the Lock() steps are disabled while w.mu is held).     *)
(***************************************************************************)
\* Every step thread t can take in process() (for the processLoop thread
\* also the receive from watcher.Changed()).
ThreadStep(t) ==
    \/ ProcLock1(t)
    \/ ProcStart(t)
    \/ ProcBuild(t)
    \/ ProcLock2(t)
    \/ ProcPublish(t)
    \/ ProcAgain(t)
    \/ t = LoopT /\ LoopChanged

Fairness ==
    /\ \A t \in Threads : SF_vars(ThreadStep(t))
    /\ WF_vars(TriggerSpawn)

\* A worker that is never stopped, on a readable beads file whose content
\* stays what it is (the file may be rewritten with the same content).
LiveInit == Init /\ file \in ReadableFiles

LiveNext ==
    \/ Process
    \/ LoopChanged
    \/ FileTouch
    \/ Start
    \/ TriggerRefresh
    \/ TriggerSpawn

LiveSpec == LiveInit /\ [][LiveNext]_vars /\ Fairness

\* The worker with the history of its computations: which computation
\* started before which, and which has been overtaken.
OrderInit ==
    /\ NewBackgroundWorker
    /\ RunHistory
    /\ NoTopK
    /\ NoAnalysis
    /\ NoGraphView
    /\ NoCache
    /\ NoHistoryCache
    /\ NoVectorIndex
    /\ NoBoard
    /\ NoRanks

OrderSpec == OrderInit /\ [][Next]_vars

(***************************************************************************)
(* Properties of the BackgroundWorker                                      *)
(***************************************************************************)
\* Threads that are between the start of process() (line 184) and the
\* publication of its result (line 192).
Computing == {t \in Threads : pc[t] \in {"p_build", "p_lock2", "p_cs2"}}
\* Threads that run buildSnapshot (line 189).
Building == {t \in Threads : pc[t] = "p_build"}
\* Calls of process() that have not yet decided whether to compute.
Pending == {t \in Threads : pc[t] \in {"p_lock1", "p_cs1", "p_again"}}

\* C1: at most one snapshot computation runs at a time: two executions of
\* buildSnapshot never overlap.
C1_AtMostOneComputation == Cardinality(Building) <= 1

\* A trigger reaches the worker: TriggerRefresh decides to spawn or sets
\* dirty, or processLoop receives from watcher.Changed().
TriggerArrives ==
    \/ cpc = "idle" /\ cpc' = "t_spawn"
    \/ cpc = "idle" /\ ~dirty /\ dirty'
    \/ pc[LoopT] = "select" /\ pc'[LoopT] = "p_lock1"

\* C2: a trigger that arrives while a computation is in flight is recorded
\* as dirty (and is served by a computation started after the current one).
C2_TriggerInFlightIsDirty ==
    [][(Computing # {} /\ TriggerArrives) => dirty']_vars

\* C3: whatever the number of triggers, the computations that are running or
\* pending number at most two: one running and one follow-up.
C3_BoundedComputations == Cardinality(Computing \cup Pending) <= 2

\* A snapshot pointer refers to a snapshot whose every field is computed
\* from its issues.
Complete(ptr) ==
    /\ ptr # Nil
    /\ LET s == ptr[1]
           closed == {i \in DOMAIN s.Issues :
                         s.Issues[i].Status = StatusClosed}
       IN  /\ s.ListItems = Len(s.Issues)
           /\ s.CountClosed = Cardinality(closed)
           /\ s.CountOpen = Len(s.Issues) - Cardinality(closed)

\* C4: GetSnapshot returns nil or a snapshot whose build was complete
\* when it was published, and the published snapshot only changes by being
\* replaced, under the lock, with the finished result of a process().
C4_NoPartialSnapshot ==
    /\ [](GetSnapshot = Nil \/ Complete(GetSnapshot))
    /\ [][snapshot' # snapshot =>
            \E t \in Threads :
                /\ pc[t] = "p_cs2" /\ mu = t
                /\ snapshot' = result[t]
                /\ (result[t] = Nil \/ Complete(result[t]))]_vars

\* A complete snapshot is published while the next one is being built.
C4_Witness == Complete(snapshot) /\ Building # {}

\* C5: w.mu is never held by a thread that loads and builds a snapshot, so
\* GetSnapshot and State never wait for a computation.
C5_NoLockWhileBuilding ==
    /\ \A t \in Building : mu # t
    /\ mu \in Threads => pc[mu] \in {"p_cs1", "p_cs2"}

\* A build is in flight and the lock is free for a reader.
C5_Witness == Building # {} /\ mu = MuFree /\ cpc = "idle"

\* C6: a computation that has started is not cancelled when a newer
\* trigger supersedes it (dirty): it leaves the build only for the lock of
\* line 191, leaves line 192 with its result published, and does reach
\* the end of process().
C6_NotCancelled ==
    /\ [][\A t \in Threads :
            /\ pc[t] = "p_build" => pc'[t] \in {"p_build", "p_lock2"}
            /\ pc[t] = "p_lock2" =>
                  /\ pc'[t] \in {"p_lock2", "p_cs2"}
                  /\ result'[t] = result[t]
            /\ pc[t] = "p_cs2" =>
                  \/ pc'[t] = "p_cs2" /\ result'[t] = result[t]
                  \/ snapshot' = result[t]]_vars
    /\ \A t \in Threads :
            (pc[t] = "p_build") ~> (pc[t] \in {"p_again", "free", "select"})

\* A superseded computation has published a snapshot.
C6_Witness == snapshot # Nil /\ \E t \in Threads : pc[t] = "p_again"

\* C7: once Stop has returned, State() is WorkerStopped.
C7_StoppedAfterStop == stopReturned => State = WorkerStopped

\* C8: after a call of Stop has returned, a later call of Stop does not
\* change the state or enter the shutdown sequence (cancel, watcher stop,
\* wait) again.
C8_StopIdempotent ==
    [][stopReturned => ~(cpc = "idle" /\ cpc' = "s_cancel")]_vars

\* C9: after TriggerRefresh (it spawned a process() or set dirty) on a
\* worker that is not stopped and whose file is readable, GetSnapshot
\* eventually returns the snapshot of the issues of the file.
C9_RefreshPublishes ==
    (cpc = "t_spawn" \/ dirty) ~> (GetSnapshot = Build(file.Issues))

\* A refresh was served: the snapshot of the file is published.
C9_Witness ==
    /\ ~file.Err
    /\ GetSnapshot = Build(file.Issues)
    /\ \A t \in Threads : pc[t] \in {"free", "notStarted"}
    /\ state = WorkerIdle
    /\ cpc = "idle"

\* C28: after Stop has returned, the published snapshot no longer changes
\* and no process() enters a new computation (line 184), whatever triggers
\* arrive and whatever was in flight or pending when Stop was called.
C28_StopHalts ==
    [][stopReturned =>
          /\ GetSnapshot' = GetSnapshot
          /\ \A t \in Threads :
                 pc'[t] = "p_build" => pc[t] = "p_build"]_vars

\* The computation of thread t is in flight and a computation that started
\* after it has already published its result.
Late(t) ==
    \E k \in DOMAIN runs.Order : runs.Order[k].T = t /\ runs.Order[k].Late

\* C29: published snapshots never go backwards: GetSnapshot is the result of
\* the computation that started latest among the completed ones, so the
\* published snapshot is never replaced by the different result of a
\* computation that started before one that has already published.
C29_NeverBackwards ==
    [][\A t \in Threads :
          (pc[t] = "p_cs2" /\ pc'[t] # "p_cs2" /\ Late(t)) =>
              GetSnapshot' = GetSnapshot]_vars

\* C30: once GetSnapshot has returned a snapshot, it never returns nil
\* again, also when a later computation fails to load the beads file.
C30_GoodSnapshotKept ==
    [][GetSnapshot # Nil => GetSnapshot' # Nil]_vars

(***************************************************************************)
(* getTopKeys (analysis package): top-K selection over a metric map        *)
(***************************************************************************)
\* Largest metric value of the maps under study.
MaxScore == 1
\* Largest limit passed to getTopKeys.
MaxLimit == 3
\* Number of calls of getTopKeys on the same map.
MaxCalls == 2

TopKIDs == {"alpha", "bravo", "charlie"}
Scores == 0..MaxScore
\* map[string]float64 over the node IDs
MetricMaps == UNION {[S -> Scores] : S \in SUBSET TopKIDs}

\* The orders in which "for k, v := range m" may visit the keys of a map.
RangeOrders(m) ==
    {o \in [1..Cardinality(DOMAIN m) -> DOMAIN m] :
        \A i, j \in DOMAIN o : o[i] = o[j] => i = j}

\* The less function getTopKeys gives to sort.Slice.
TopKLess(a, b) == a.Value > b.Value

\* sort.Slice on a slice of at most 12 elements is an insertion sort:
\* each element moves left while it is less than its left neighbour.
RECURSIVE InsertLeft(_, _)
InsertLeft(s, x) ==
    IF s = <<>> THEN <<x>>
    ELSE IF TopKLess(x, s[Len(s)])
         THEN Append(InsertLeft(SubSeq(s, 1, Len(s) - 1), x), s[Len(s)])
         ELSE Append(s, x)

RECURSIVE SortSlice(_)
SortSlice(s) ==
    IF s = <<>> THEN <<>>
    ELSE InsertLeft(SortSlice(SubSeq(s, 1, Len(s) - 1)), s[Len(s)])

\* getTopKeys(m, limit) when the range over m visits the keys in "order".
getTopKeys(m, order, limit) ==
    LET ss == [i \in DOMAIN order |-> [Key |-> order[i], Value |-> m[order[i]]]]
        sorted == SortSlice(ss)
        n == IF Len(sorted) < limit THEN Len(sorted) ELSE limit
    IN  [i \in 1..n |-> sorted[i].Key]

\* One call of getTopKeys on the metric map.
GetTopKeysCall ==
    /\ Len(tkRuns) < MaxCalls
    /\ \E order \in RangeOrders(tkMap) :
          tkRuns' = Append(tkRuns, getTopKeys(tkMap, order, tkLimit))
    /\ UNCHANGED <<tkMap, tkLimit>>
    /\ UNCHANGED outsideTopK

TopKInit ==
    /\ NewBackgroundWorker
    /\ NoRunHistory
    /\ file = Unreadable
    /\ tkMap \in MetricMaps
    /\ tkLimit \in 1..MaxLimit
    /\ tkRuns = <<>>
    /\ NoAnalysis
    /\ NoGraphView
    /\ NoCache
    /\ NoHistoryCache
    /\ NoVectorIndex
    /\ NoBoard
    /\ NoRanks

TopKNext == GetTopKeysCall

TopKSpec == TopKInit /\ [][TopKNext]_vars

\* C10: repeated calls of the top-K selection on an identical metric map
\* return the identical list of IDs in the identical order, whatever order
\* the map is iterated in.
C10_StableTopK ==
    \A i, j \in DOMAIN tkRuns : tkRuns[i] = tkRuns[j]

(***************************************************************************)
(* Dependency-graph analysis (analysis package): impact and cycles         *)
(***************************************************************************)
\* Largest number of dependency edges of the graphs under study.
MaxEdges == 5
\* Number of runs of the cycle detection on the same graph.
MaxRuns == 2

\* The issue IDs, in lexicographic order.
GraphIDs == <<"A", "B", "C", "D">>
GraphNodes == {GraphIDs[i] : i \in DOMAIN GraphIDs}
\* Directed pairs (dependent, target). A dependency of an issue on itself
\* is dropped when the graph is built.
EdgePairs == {e \in GraphNodes \X GraphNodes : e[1] # e[2]}
Graphs == {E \in SUBSET EdgePairs : Cardinality(E) <= MaxEdges}

\* The sequences that hold every node once.
NodeOrders ==
    {o \in [DOMAIN GraphIDs -> GraphNodes] :
        \A i, j \in DOMAIN o : o[i] = o[j] => i = j}

\* Position of node n in the order o.
Rank(o, n) == CHOOSE i \in DOMAIN o : o[i] = n

\* The direct dependents of v: the nodes with a dependency edge into v.
Dependents(E, v) == {u \in GraphNodes : <<u, v>> \in E}

\* Reading a Go map: a missing key reads as 0.
Lookup(m, k) == IF k \in DOMAIN m THEN m[k] ELSE 0

RECURSIVE SumOver(_, _)
SumOver(m, S) ==
    IF S = {} THEN 0
    ELSE LET x == CHOOSE x \in S : TRUE
         IN  Lookup(m, x) + SumOver(m, S \ {x})

\* Every order of the nodes, topological or not.
AnyOrders(E) == NodeOrders

\* The topological orders of the graph: dependents before the issues they
\* depend on. A graph with a cycle has none.
TopoOrders(E) ==
    {o \in NodeOrders : \A e \in E : Rank(o, e[1]) < Rank(o, e[2])}

\* An impact that counts the direct dependents only.
ImpactOfDirect(E, m, v) == 1 + Cardinality(Dependents(E, v))

\* Impact(v) = 1 + the sum of Impact(u) over the direct dependents u of v,
\* read from the scores m finalized so far.
ImpactOf(E, m, v) == 1 + SumOver(m, Dependents(E, v))

\* The scores after the first k nodes of the order o are finalized.
RECURSIVE ImpactAlong(_, _, _)
ImpactAlong(E, o, k) ==
    IF k = 0 THEN <<>>
    ELSE LET m == ImpactAlong(E, o, k - 1)
         IN  [n \in DOMAIN m \cup {o[k]} |->
                 IF n = o[k] THEN ImpactOf(E, m, n) ELSE m[n]]

\* Analyze: the impact scores, computed along a topological order.
ComputeImpact ==
    /\ impact = <<>>
    /\ \E o \in TopoOrders(gEdges) :
          impact' = ImpactAlong(gEdges, o, Len(o))
    /\ UNCHANGED <<gEdges, cycRuns>>
    /\ UNCHANGED outsideAnalysis

\* The nodes on a path.
OnPath(path) == {path[i] : i \in DOMAIN path}

\* An edge test that ignores the direction of the dependency.
HasEdgeEitherWay(E, u, v) == <<u, v>> \in E \/ <<v, u>> \in E

HasEdge(E, u, v) == <<u, v>> \in E

\* A search that never leaves the node it starts from.
MayVisitNone(o, path, n) == FALSE

\* The search from path[1] may step to n: an elementary cycle repeats no
\* node, and it is searched from its first node in the traversal order.
MayVisit(o, path, n) ==
    /\ n \notin OnPath(path)
    /\ Rank(o, n) > Rank(o, path[1])

\* A cycle reported as its member nodes only.
CloseCycleOpen(path) == path

\* A cycle is reported as a closed walk: it ends with the ID it starts with.
CloseCycle(path) == Append(path, path[1])

\* The cycles found from the simple path "path", trying as next node
\* o[k], o[k+1], ... in the traversal order o.
RECURSIVE CyclesVia(_, _, _, _)
CyclesVia(E, o, path, k) ==
    IF k > Len(o) THEN <<>>
    ELSE LET last == path[Len(path)]
             n == o[k]
             found ==
                 IF ~HasEdge(E, last, n) THEN <<>>
                 ELSE IF n = path[1] THEN <<CloseCycle(path)>>
                 ELSE IF MayVisit(o, path, n)
                      THEN CyclesVia(E, o, Append(path, n), 1)
                      ELSE <<>>
         IN  found \o CyclesVia(E, o, path, k + 1)

\* The cycles found from the start nodes o[i], o[i+1], ...
RECURSIVE CyclesFrom(_, _, _)
CyclesFrom(E, o, i) ==
    IF i > Len(o) THEN <<>>
    ELSE CyclesVia(E, o, <<o[i]>>, 1) \o CyclesFrom(E, o, i + 1)

\* A traversal in the order a Go map happens to be iterated in.
MapTraversalOrders == NodeOrders

\* The fixed traversal order: by lexicographic ID.
TraversalOrders == {GraphIDs}

\* One run of the cycle detection on the graph.
FindCycles ==
    /\ Len(cycRuns) < MaxRuns
    /\ \E o \in TraversalOrders :
          cycRuns' = Append(cycRuns, CyclesFrom(gEdges, o, 1))
    /\ UNCHANGED <<gEdges, impact>>
    /\ UNCHANGED outsideAnalysis

\* NewAnalyzer on a list of issues: the graph of their dependencies.
AnalysisInit ==
    /\ NewBackgroundWorker
    /\ NoRunHistory
    /\ file = Unreadable
    /\ NoTopK
    /\ NoGraphView
    /\ NoCache
    /\ NoHistoryCache
    /\ NoVectorIndex
    /\ NoBoard
    /\ NoRanks
    /\ gEdges \in Graphs
    /\ impact = <<>>
    /\ cycRuns = <<>>

AnalysisNext == ComputeImpact \/ FindCycles

AnalysisSpec == AnalysisInit /\ [][AnalysisNext]_vars

\* The impact scores are computed.
ImpactDone == impact # <<>>

ChainsOfGraph ==
    {c \in UNION {[1..n -> GraphNodes] : n \in 1..Len(GraphIDs)} :
        /\ \A i, j \in DOMAIN c : c[i] = c[j] => i = j
        /\ gEdges = {<<c[i], c[i + 1]>> : i \in 1..(Len(c) - 1)}}

\* C12 as stated: in a chain of length n, where A1 depends on A2 ... depends
\* on An, the impact of the i-th node is n - i + 1.
C12_ChainLawAsStated ==
    ImpactDone =>
        \A c \in ChainsOfGraph :
            \A i \in DOMAIN c : impact[c[i]] = Len(c) - i + 1

\* C12, amended: in a chain of length n, where A1 depends on A2 ... depends
\* on An, the impact of the i-th node is i: A1 gets 1 and An, the node most
\* depended upon, gets n.
C12_ChainLaw ==
    ImpactDone =>
        \A c \in ChainsOfGraph :
            \A i \in DOMAIN c : impact[c[i]] = i

\* Impact is computed for the chain where A depends on B and B on C.
C12_Witness ==
    /\ gEdges = {<<"A", "B">>, <<"B", "C">>}
    /\ ImpactDone
    /\ impact["A"] = 1 /\ impact["B"] = 2 /\ impact["C"] = 3

\* The elementary cycles of the graph, each written once, from its first
\* member in ID order: c[1] -> c[2] -> ... -> c[n] -> c[1].
ElementaryCycles ==
    {c \in UNION {[1..n -> GraphNodes] : n \in 2..Len(GraphIDs)} :
        /\ <<c[Len(c)], c[1]>> \in gEdges
        /\ \A i \in 1..(Len(c) - 1) : <<c[i], c[i + 1]>> \in gEdges
        /\ \A i, j \in DOMAIN c : c[i] = c[j] => i = j
        /\ \A i \in DOMAIN c : Rank(GraphIDs, c[1]) <= Rank(GraphIDs, c[i])}

\* The nodes that lie on a cycle.
CyclicNodes == UNION {{c[i] : i \in DOMAIN c} : c \in ElementaryCycles}

\* No two cycles of the graph share a node.
DisjointCycles ==
    LET cycles == ElementaryCycles IN
    \A c, d \in cycles :
        c # d => {c[i] : i \in DOMAIN c} \cap {d[i] : i \in DOMAIN d} = {}

\* The members of a reported cycle.
Members(cycle) == {cycle[i] : i \in DOMAIN cycle}

\* C13: when the cycles of the graph are pairwise disjoint, the detection
\* returns exactly one sequence per cycle; each sequence starts and ends
\* with the same ID and its length is the number of members plus one.
C13_OneSequencePerCycle ==
    (cycRuns # <<>> /\ DisjointCycles) =>
        LET cycles == ElementaryCycles IN
        \A r \in DOMAIN cycRuns :
            LET found == cycRuns[r] IN
            /\ Len(found) = Cardinality(cycles)
            /\ \A c \in cycles :
                  \E k \in DOMAIN found :
                      Members(found[k]) = {c[i] : i \in DOMAIN c}
            /\ \A k \in DOMAIN found :
                  /\ found[k][1] = found[k][Len(found[k])]
                  /\ Len(found[k]) = Cardinality(Members(found[k])) + 1

\* The detection ran on two disjoint mutual dependencies and returned two
\* cycles of length 3.
C13_Witness ==
    /\ gEdges = {<<"A", "B">>, <<"B", "A">>, <<"C", "D">>, <<"D", "C">>}
    /\ cycRuns # <<>>
    /\ Len(cycRuns[1]) = 2
    /\ \A k \in DOMAIN cycRuns[1] : Len(cycRuns[1][k]) = 3

\* The graph is a cyclic part and an acyclic chain with no edge between
\* the two.
MixedCycleAndDAG ==
    LET cyclic == CyclicNodes IN
    /\ cyclic # {}
    /\ \E e \in gEdges : e[1] \notin cyclic /\ e[2] \notin cyclic
    /\ \A e \in gEdges : (e[1] \in cyclic) = (e[2] \in cyclic)

\* C14: in a graph made of one cyclic component and one acyclic chain that
\* share no edge, the reported cycles hold exactly the members of the
\* cyclic component and no node of the chain.
C14_MixedIsolation ==
    (cycRuns # <<>> /\ MixedCycleAndDAG) =>
        \A r \in DOMAIN cycRuns :
            UNION {Members(cycRuns[r][k]) : k \in DOMAIN cycRuns[r]} = CyclicNodes

\* The detection ran on a mutual dependency next to a chain.
C14_Witness ==
    /\ gEdges = {<<"A", "B">>, <<"B", "A">>, <<"D", "C">>}
    /\ cycRuns # <<>>
    /\ cycRuns[1] # <<>>

\* The nodes reached from the nodes of S along the edges.
RECURSIVE ReachedFrom(_)
ReachedFrom(S) ==
    LET T == S \cup {e[2] : e \in {d \in gEdges : d[1] \in S}}
    IN  IF T = S THEN S ELSE ReachedFrom(T)

\* The cyclic structure of node u: the nodes on a common cycle with u.
Component(u) == {v \in GraphNodes : v \in ReachedFrom({u}) /\ u \in ReachedFrom({v})}

\* C15: when the graph has a cycle through two or more nodes, the detection
\* reports at least one cycle, and at least one inside every cyclic
\* structure, nested or overlapping cycles included.
C15_NeverZeroCycles ==
    cycRuns # <<>> =>
    LET cyclic == CyclicNodes IN
    \A r \in DOMAIN cycRuns :
        \A u \in cyclic :
            \E k \in DOMAIN cycRuns[r] :
                /\ Members(cycRuns[r][k]) \subseteq Component(u)
                /\ Len(cycRuns[r][k]) >= 3

\* The detection ran on the nested cycles A->B->C->A and A->B->D->A.
C15_Witness ==
    /\ gEdges = {<<"A", "B">>, <<"B", "C">>, <<"C", "A">>, <<"B", "D">>, <<"D", "A">>}
    /\ cycRuns # <<>>
    /\ Len(cycRuns[1]) >= 1

MaxDeps == 2

StatusBlocked == "blocked"
DepBlocks == "blocks"
DepRelated == "related"
DepParentChild == "parent-child"
DepDiscoveredFrom == "discovered-from"
\* The values of Dependency.Type: the four constants and the zero value.
DependencyTypes == {"", DepBlocks, DepRelated, DepParentChild, DepDiscoveredFrom}

\* The IDs of the issues of the list, and an ID that no issue has.
IssueIDs == <<"bv-1", "bv-2">>
MissingID == "bv-9"

\* The dependency records an issue may carry: on another issue of the list
\* or on an issue that is absent from it.
DependenciesOf(id) ==
    {[DependsOnID |-> t, Type |-> ty] :
        t \in ({IssueIDs[i] : i \in DOMAIN IssueIDs} \ {id}) \cup {MissingID},
        ty \in DependencyTypes}

IssuesOf(id) ==
    {[ID |-> id, Status |-> st, Dependencies |-> deps] :
        st \in {StatusOpen, StatusClosed},
        deps \in UNION {[1..n -> DependenciesOf(id)] : n \in 0..MaxDeps}}

RECURSIVE CountDeps(_)
CountDeps(issues) ==
    IF issues = <<>> THEN 0
    ELSE Len(Head(issues).Dependencies) + CountDeps(Tail(issues))

IssueLists ==
    {issues \in [DOMAIN IssueIDs -> UNION {IssuesOf(IssueIDs[i]) : i \in DOMAIN IssueIDs}] :
        /\ \A i \in DOMAIN issues : issues[i].ID = IssueIDs[i]
        /\ CountDeps(issues) <= MaxDeps}

\* issueMap: a pointer to the issue with this ID, nil when there is none.
IssuePtr(issues, id) ==
    IF \E i \in DOMAIN issues : issues[i].ID = id
    THEN <<issues[CHOOSE i \in DOMAIN issues : issues[i].ID = id]>>
    ELSE Nil

\* What a field read through a nil pointer gives.
Panic == "panic: nil pointer dereference"
StatusAt(ptr) == IF ptr = Nil THEN Panic ELSE ptr[1].Status

\* Reading a map of slices: a missing key reads as the nil slice.
SliceAt(m, k) == IF k \in DOMAIN m THEN m[k] ELSE <<>>
\* m[k] = append(m[k], v)
AppendAt(m, k, v) ==
    [x \in DOMAIN m \cup {k} |-> IF x = k THEN Append(SliceAt(m, k), v) ELSE m[x]]

\* Every dependency record makes a relationship.
MakesEdgeAlways(dep) == TRUE

\* rebuildGraph: the dependency types that make a blocker/dependent
\* relationship.
MakesEdge(dep) == dep.Type = DepBlocks \/ dep.Type = DepParentChild

\* The dependency records of the list, in the order rebuildGraph visits
\* them.
RECURSIVE DepRecords(_)
DepRecords(issues) ==
    IF issues = <<>> THEN <<>>
    ELSE [i \in DOMAIN Head(issues).Dependencies |->
             [IssueID |-> Head(issues).ID, Dep |-> Head(issues).Dependencies[i]]]
         \o DepRecords(Tail(issues))

\* The relationship maps after the first k dependency records.
RECURSIVE Relationships(_, _)
Relationships(recs, k) ==
    IF k = 0 THEN [blockers |-> <<>>, dependents |-> <<>>]
    ELSE LET r == Relationships(recs, k - 1)
             rec == recs[k]
         IN  IF MakesEdge(rec.Dep)
             THEN [blockers |-> AppendAt(r.blockers, rec.IssueID, rec.Dep.DependsOnID),
                   dependents |-> AppendAt(r.dependents, rec.Dep.DependsOnID, rec.IssueID)]
             ELSE r

\* sort.Strings on IDs of the list: the IDs in lexicographic order.
RECURSIVE SortStrings(_, _)
SortStrings(ids, k) ==
    IF k > Len(IssueIDs) THEN <<>>
    ELSE (IF \E i \in DOMAIN ids : ids[i] = IssueIDs[k] THEN <<IssueIDs[k]>> ELSE <<>>)
         \o SortStrings(ids, k + 1)

\* NewGraphModel without insights: rebuildGraph, which sorts the IDs with
\* sort.Strings.
NewGraphModel ==
    /\ sortedIDs = <<>>
    /\ LET r == Relationships(DepRecords(gvIssues), Len(DepRecords(gvIssues)))
       IN  /\ blockers' = r.blockers
           /\ dependents' = r.dependents
    /\ sortedIDs' = SortStrings([i \in DOMAIN gvIssues |-> gvIssues[i].ID], 1)
    /\ selectedIdx' = IF selectedIdx >= Len(gvIssues) THEN 0 ELSE selectedIdx
    /\ UNCHANGED <<gvIssues, gvOut>>
    /\ UNCHANGED outsideGraphView

MoveDown ==
    /\ sortedIDs # <<>>
    /\ selectedIdx < Len(sortedIDs) - 1
    /\ selectedIdx' = selectedIdx + 1
    /\ UNCHANGED <<gvIssues, blockers, dependents, sortedIDs, gvOut>>
    /\ UNCHANGED outsideGraphView

\* A box drawn for whatever ID it is given.
renderNodeBoxUnchecked(issues, id) ==
    [ID |-> id, Icon |-> StatusAt(IssuePtr(issues, id)), Title |-> "title"]

\* renderNodeBox: the box of a blocker or dependent.
renderNodeBox(issues, id) ==
    LET issue == IssuePtr(issues, id)
    IN  IF issue # Nil
        THEN [ID |-> id, Icon |-> StatusAt(issue), Title |-> "title"]
        ELSE [ID |-> id, Icon |-> "?", Title |-> "(not in filter)"]

\* renderBlockersVisual, renderDependentsVisual: the boxes of a row.
renderBoxes(issues, ids) == [i \in DOMAIN ids |-> renderNodeBox(issues, ids[i])]

\* View on a terminal wide enough for both panels.
View ==
    IF Len(sortedIDs) = 0 THEN [Kind |-> "empty"]
    ELSE LET selectedID == sortedIDs[selectedIdx + 1]
             selectedIssue == IssuePtr(gvIssues, selectedID)
         IN  IF selectedIssue = Nil THEN [Kind |-> "error"]
             ELSE [Kind |-> "graph",
                   Blockers |-> renderBoxes(gvIssues, SliceAt(blockers, selectedID)),
                   Ego |-> [ID |-> selectedID,
                            Icon |-> StatusAt(selectedIssue),
                            Up |-> Len(SliceAt(blockers, selectedID)),
                            Down |-> Len(SliceAt(dependents, selectedID))],
                   Dependents |-> renderBoxes(gvIssues, SliceAt(dependents, selectedID))]

ViewCall ==
    /\ sortedIDs # <<>>
    /\ gvOut' = <<View>>
    /\ UNCHANGED <<gvIssues, blockers, dependents, sortedIDs, selectedIdx>>
    /\ UNCHANGED outsideGraphView

\* BuildDependencyTree: the child node of one dependency of the root.
treeChild(issues, dep) ==
    LET childIssue == IssuePtr(issues, dep.DependsOnID)
    IN  IF childIssue # Nil
        THEN [ID |-> dep.DependsOnID, Title |-> "title",
              Status |-> StatusAt(childIssue), Type |-> dep.Type]
        ELSE [ID |-> dep.DependsOnID, Title |-> "???", Status |-> "?", Type |-> dep.Type]

\* BuildDependencyTree(rootID, issueMap): nil when the root is no issue.
BuildDependencyTree(rootID, issues) ==
    LET root == IssuePtr(issues, rootID)
    IN  IF root = Nil THEN Nil
        ELSE <<[Kind |-> "tree",
                ID |-> root[1].ID,
                Status |-> StatusAt(root),
                Children |-> [i \in DOMAIN root[1].Dependencies |->
                                 treeChild(issues, root[1].Dependencies[i])]]>>

BuildDependencyTreeCall ==
    /\ gvIssues # <<>>
    /\ \E rootID \in {IssueIDs[i] : i \in DOMAIN IssueIDs} \cup {MissingID} :
          gvOut' = BuildDependencyTree(rootID, gvIssues)
    /\ UNCHANGED <<gvIssues, blockers, dependents, sortedIDs, selectedIdx>>
    /\ UNCHANGED outsideGraphView

\* DependencyType.IsBlocking: the blocks type, and parent-child treated as
\* blocking.
IsBlocking(ty) == ty = DepBlocks \/ ty = DepParentChild

\* A test that takes a closed blocker for an open one.
blockedByClosedToo(issues, dep) ==
    IsBlocking(dep.Type) /\ IssuePtr(issues, dep.DependsOnID) # Nil

\* Build: this dependency blocks its issue.
blockedBy(issues, dep) ==
    /\ IsBlocking(dep.Type)
    /\ LET blocker == IssuePtr(issues, dep.DependsOnID)
       IN  blocker # Nil /\ StatusAt(blocker) # StatusClosed

\* Build: the statistics loop, for the issues from position k on.
RECURSIVE CountReady(_, _)
CountReady(issues, k) ==
    IF k > Len(issues) THEN 0
    ELSE LET issue == issues[k]
             isBlocked == \E i \in DOMAIN issue.Dependencies :
                              blockedBy(issues, issue.Dependencies[i])
             ready == /\ issue.Status # StatusClosed
                      /\ issue.Status # StatusBlocked
                      /\ ~isBlocked
         IN  (IF ready THEN 1 ELSE 0) + CountReady(issues, k + 1)

\* SnapshotBuilder.Build on the issue list: the statistics of the snapshot.
SnapshotBuildCall ==
    /\ gvIssues # <<>>
    /\ gvOut' = <<[Kind |-> "snapshot",
                   CountOpen |-> CountStatus(gvIssues, FALSE),
                   CountClosed |-> CountStatus(gvIssues, TRUE),
                   CountReady |-> CountReady(gvIssues, 1)]>>
    /\ UNCHANGED <<gvIssues, blockers, dependents, sortedIDs, selectedIdx>>
    /\ UNCHANGED outsideGraphView

\* An issue list is loaded; no view is built yet.
GraphViewInit ==
    /\ NewBackgroundWorker
    /\ NoRunHistory
    /\ file = Unreadable
    /\ NoTopK
    /\ NoAnalysis
    /\ NoCache
    /\ NoHistoryCache
    /\ NoVectorIndex
    /\ NoBoard
    /\ NoRanks
    /\ gvIssues \in IssueLists
    /\ blockers = <<>>
    /\ dependents = <<>>
    /\ sortedIDs = <<>>
    /\ selectedIdx = 0
    /\ gvOut = <<>>

GraphViewNext ==
    \/ NewGraphModel
    \/ MoveDown
    \/ ViewCall
    \/ BuildDependencyTreeCall
    \/ SnapshotBuildCall

GraphViewSpec == GraphViewInit /\ [][GraphViewNext]_vars

\* The graph view is built.
GraphBuilt == sortedIDs # <<>>

\* How often x occurs in the sequence q.
Occurrences(q, x) == Cardinality({i \in DOMAIN q : q[i] = x})

\* The dependency records of type ty that issue u carries on target v.
DepsOfType(u, v, types) ==
    {i \in DOMAIN u.Dependencies :
        u.Dependencies[i].DependsOnID = v /\ u.Dependencies[i].Type \in types}

AllIDs == {IssueIDs[i] : i \in DOMAIN IssueIDs} \cup {MissingID}

BoxesFine(boxes) == \A i \in DOMAIN boxes : boxes[i].Icon # Panic

\* The issue at position k of the list is ready: it is open and no blocking
\* dependency of it leads to an issue of the list that is not closed.
ReadyIssue(k) ==
    /\ gvIssues[k].Status = StatusOpen
    /\ \A i \in DOMAIN gvIssues[k].Dependencies :
          LET dep == gvIssues[k].Dependencies[i]
          IN  dep.Type \in {"blocks", "parent-child"} =>
                  \A j \in DOMAIN gvIssues :
                      gvIssues[j].ID = dep.DependsOnID => gvIssues[j].Status = StatusClosed

\* C19: a dependency on an ID that no issue of the list has is kept as a
\* dangling relationship by rebuildGraph, and the graph view, the dependency
\* tree and the ready count handle it without reading through a nil pointer:
\* the view draws a placeholder box, the tree a "???" child, and the count
\* does not take it for a blocker.
C19_DanglingTolerated ==
    /\ GraphBuilt =>
          \A k \in DOMAIN gvIssues :
              DepsOfType(gvIssues[k], MissingID, {"blocks", "parent-child"}) # {} =>
                  /\ Occurrences(SliceAt(blockers, gvIssues[k].ID), MissingID) >= 1
                  /\ Occurrences(SliceAt(dependents, MissingID), gvIssues[k].ID) >= 1
    /\ gvOut # <<>> =>
          LET out == gvOut[1] IN
          /\ out.Kind # "error"
          /\ out.Kind = "graph" =>
                /\ out.Ego.Icon # Panic
                /\ BoxesFine(out.Blockers)
                /\ BoxesFine(out.Dependents)
                /\ Len(out.Blockers) = out.Ego.Up
                /\ \A i \in DOMAIN out.Blockers :
                      out.Blockers[i].ID = MissingID =>
                          out.Blockers[i].Title = "(not in filter)"
          /\ out.Kind = "tree" =>
                /\ out.Status # Panic
                /\ \A k \in DOMAIN gvIssues :
                      gvIssues[k].ID = out.ID =>
                          Len(out.Children) = Len(gvIssues[k].Dependencies)
                /\ \A i \in DOMAIN out.Children :
                      /\ out.Children[i].Status # Panic
                      /\ out.Children[i].ID = MissingID => out.Children[i].Title = "???"
          /\ out.Kind = "snapshot" =>
                out.CountReady = Cardinality({k \in DOMAIN gvIssues : ReadyIssue(k)})

\* The view is rendered for an issue that is blocked by an issue absent
\* from the list.
C19_Witness ==
    /\ gvOut # <<>>
    /\ gvOut[1].Kind = "graph"
    /\ \E i \in DOMAIN gvOut[1].Blockers :
          /\ gvOut[1].Blockers[i].ID = MissingID
          /\ gvOut[1].Blockers[i].Title = "(not in filter)"

(***************************************************************************)
(* cass.Cache: the LRU cache of correlation hints                          *)
(***************************************************************************)
\* Latest time the clock reaches.
MaxClock == 3
\* c.ttl, in ticks of the clock (WithResultCacheTTL).
CacheTTL == 1
\* c.maxSize (WithResultCacheSize).
CacheSize == 2

BeadIDs == {"bead-1", "bead-2", "bead-3"}
\* The hints callers store (pointers to CorrelationHint).
Hints == {"hint-a", "hint-b"}

\* time.Time.After
After(t, u) == t > u

\* The sequence q without the key k.
RECURSIVE Without(_, _)
Without(q, k) ==
    IF q = <<>> THEN <<>>
    ELSE IF Head(q) = k THEN Without(Tail(q), k)
    ELSE <<Head(q)>> \o Without(Tail(q), k)

\* order.MoveToBack
MoveToBack(q, k) == Append(Without(q, k), k)

\* delete(c.entries, key)
Delete(m, k) == [x \in DOMAIN m \ {k} |-> m[x]]
\* c.entries[key] = entry
Store(m, k, e) == [x \in DOMAIN m \cup {k} |-> IF x = k THEN e ELSE m[x]]

\* Several deletes.
DeleteAll(m, K) == [x \in DOMAIN m \ K |-> m[x]]

\* removeExpired: the keys whose entry has expired at time now.
ExpiredKeys(m, now) == {k \in DOMAIN m : After(now, m[k].ExpiresAt)}

RECURSIVE WithoutAll(_, _)
WithoutAll(q, K) ==
    IF q = <<>> THEN <<>>
    ELSE IF Head(q) \in K THEN WithoutAll(Tail(q), K)
    ELSE <<Head(q)>> \o WithoutAll(Tail(q), K)

\* An eviction that takes the most recently used entry.
RECURSIVE EvictMRU(_)
EvictMRU(c) ==
    IF Cardinality(DOMAIN c.entries) >= CacheSize /\ c.order # <<>>
    THEN EvictMRU([entries |-> Delete(c.entries, c.order[Len(c.order)]),
                   order |-> SubSeq(c.order, 1, Len(c.order) - 1)])
    ELSE c

\* evictIfNeeded, second pass: from the front while the cache is full.
RECURSIVE EvictLRU(_)
EvictLRU(c) ==
    IF Cardinality(DOMAIN c.entries) >= CacheSize /\ c.order # <<>>
    THEN EvictLRU([entries |-> Delete(c.entries, Head(c.order)),
                   order |-> Tail(c.order)])
    ELSE c

\* evictIfNeeded
evictIfNeeded(m, q, now) ==
    EvictLRU([entries |-> DeleteAll(m, ExpiredKeys(m, now)),
              order |-> WithoutAll(q, ExpiredKeys(m, now))])

\* A Get that never checks the expiry time.
GetExpiredNever(beadID) == FALSE

\* Get: the entry found for the key has expired.
GetExpired(beadID) == After(cNow, cEntries[beadID].ExpiresAt)

\* The keys of the entries m whose expiry time has passed at time now.
ExpiredAt(m, now) == {k \in DOMAIN m : now > m[k].ExpiresAt}

\* The history of touches h after the keys K were touched by a successful
\* Get or by a Set, kept for the keys that are still cached.
TouchedBy(h, K, cached) ==
    LET rest == SelectSeq(h, LAMBDA x : x \notin K /\ x \in cached)
        new == IF K \cap cached = {} THEN <<>> ELSE <<CHOOSE k \in K : TRUE>>
    IN  rest \o new

\* What the history holds for a key: the last Set, or nothing.
LastSetOf(beadID) == IF beadID \in DOMAIN cLastSet THEN <<cLastSet[beadID]>> ELSE <<>>
\* The entry the cache holds for a key, or nothing.
EntryOf(beadID) == IF beadID \in DOMAIN cEntries THEN <<cEntries[beadID]>> ELSE <<>>

\* Get(beadID). The hit, miss and eviction counters are left out.
Get ==
    \E beadID \in BeadIDs :
        LET call == [Key |-> beadID, At |-> cNow,
                     Had |-> EntryOf(beadID), LastSet |-> LastSetOf(beadID)]
        IN  /\ IF beadID \notin DOMAIN cEntries
               THEN /\ cGot' = <<call @@ [Hint |-> Nil]>>
                    /\ UNCHANGED <<cEntries, cOrder>>
               ELSE IF GetExpired(beadID)
               THEN /\ cEntries' = Delete(cEntries, beadID)
                    /\ cOrder' = Without(cOrder, beadID)
                    /\ cGot' = <<call @@ [Hint |-> Nil]>>
               ELSE /\ cOrder' = MoveToBack(cOrder, beadID)
                    /\ cGot' = <<call @@ [Hint |-> <<cEntries[beadID].Hint>>]>>
                    /\ UNCHANGED cEntries
            /\ cTouch' = TouchedBy(cTouch, IF cGot'[1].Hint = Nil THEN {} ELSE {beadID},
                                   DOMAIN cEntries')
            /\ cSetLog' = <<>>
            /\ UNCHANGED <<cNow, cLastSet>>
            /\ UNCHANGED outsideCache

\* Set(beadID, hint)
Set ==
    \E beadID \in BeadIDs, hint \in Hints :
        LET now == cNow
            entry == [Hint |-> hint, ExpiresAt |-> now + CacheTTL]
        IN  /\ IF beadID \in DOMAIN cEntries
               THEN /\ cEntries' = Store(cEntries, beadID, entry)
                    /\ cOrder' = MoveToBack(cOrder, beadID)
               ELSE LET c == evictIfNeeded(cEntries, cOrder, now)
                    IN  /\ cEntries' = Store(c.entries, beadID, entry)
                        /\ cOrder' = Append(c.order, beadID)
            /\ cLastSet' = Store(cLastSet, beadID, [Hint |-> hint, At |-> now])
            /\ cTouch' = TouchedBy(cTouch, {beadID}, DOMAIN cEntries')
            /\ cSetLog' = <<[Key |-> beadID,
                             Before |-> DOMAIN cEntries,
                             Expired |-> ExpiredAt(cEntries, now),
                             Touch |-> cTouch,
                             After |-> DOMAIN cEntries']>>
            /\ cGot' = <<>>
            /\ UNCHANGED cNow
            /\ UNCHANGED outsideCache

\* Invalidate(beadID)
Invalidate ==
    \E beadID \in BeadIDs :
        /\ IF beadID \in DOMAIN cEntries
           THEN /\ cEntries' = Delete(cEntries, beadID)
                /\ cOrder' = Without(cOrder, beadID)
           ELSE UNCHANGED <<cEntries, cOrder>>
        /\ cTouch' = TouchedBy(cTouch, {}, DOMAIN cEntries')
        /\ cGot' = <<>>
        /\ cSetLog' = <<>>
        /\ UNCHANGED <<cNow, cLastSet>>
        /\ UNCHANGED outsideCache

\* Clear()
Clear ==
    /\ cEntries' = <<>>
    /\ cOrder' = <<>>
    /\ cTouch' = <<>>
    /\ cGot' = <<>>
    /\ cSetLog' = <<>>
    /\ UNCHANGED <<cNow, cLastSet>>
    /\ UNCHANGED outsideCache

\* Time passes.
Tick ==
    /\ cNow < MaxClock
    /\ cNow' = cNow + 1
    /\ UNCHANGED <<cEntries, cOrder, cGot, cLastSet, cTouch, cSetLog>>
    /\ UNCHANGED outsideCache

\* NewCacheWithOptions
CacheInit ==
    /\ NewBackgroundWorker
    /\ NoRunHistory
    /\ file = Unreadable
    /\ NoTopK
    /\ NoAnalysis
    /\ NoGraphView
    /\ NoHistoryCache
    /\ NoVectorIndex
    /\ NoBoard
    /\ NoRanks
    /\ cEntries = <<>>
    /\ cOrder = <<>>
    /\ cNow = 0
    /\ cGot = <<>>
    /\ cLastSet = <<>>
    /\ cTouch = <<>>
    /\ cSetLog = <<>>

CacheNext == Get \/ Set \/ Invalidate \/ Clear \/ Tick

CacheSpec == CacheInit /\ [][CacheNext]_vars

\* C20: Get returns nil for a key that is not in the cache or whose entry
\* has expired; it never returns a hint whose expiry time (the time of the
\* last Set of the key plus the TTL) has passed, and for a key that is in
\* the cache and not expired it returns the hint of the last Set of the key.
C20_GetFreshOrNil ==
    /\ \A k \in DOMAIN cEntries :
          /\ k \in DOMAIN cLastSet
          /\ cEntries[k].Hint = cLastSet[k].Hint
          /\ cEntries[k].ExpiresAt = cLastSet[k].At + CacheTTL
    /\ cGot # <<>> =>
          LET g == cGot[1] IN
          /\ g.Hint # Nil =>
                /\ g.LastSet # <<>>
                /\ g.Hint = <<g.LastSet[1].Hint>>
                /\ g.At <= g.LastSet[1].At + CacheTTL
                /\ g.Had # <<>>
          /\ g.Had = <<>> => g.Hint = Nil
          /\ (g.Had # <<>> /\ g.At > g.Had[1].ExpiresAt) => g.Hint = Nil
          /\ (g.Had # <<>> /\ g.At <= g.Had[1].ExpiresAt) =>
                g.Hint = <<g.LastSet[1].Hint>>

\* Get found the entry of a key set twice, after its first hint's expiry
\* time but before the second's, and returned the second hint.
C20_Witness ==
    /\ cGot # <<>>
    /\ cGot[1].Hint = <<"hint-b">>
    /\ cGot[1].At = cGot[1].LastSet[1].At + CacheTTL
    /\ cGot[1].At > CacheTTL

\* The Set recorded in the log stored a key that was not cached, into a
\* cache that held maxSize entries.
SetNewIntoFull ==
    /\ cSetLog # <<>>
    /\ cSetLog[1].Key \notin cSetLog[1].Before
    /\ Cardinality(cSetLog[1].Before) >= CacheSize

\* C21: Set of a new key into a full cache evicts the expired entries first
\* and then, only if the cache is still full, the least recently used entry:
\* a non-expired entry is never evicted while an expired entry remains, and
\* the non-expired entry that is evicted is the one least recently touched
\* by Get or Set.
C21_ExpiredThenLRU ==
    SetNewIntoFull =>
        LET s == cSetLog[1]
            expired == s.Expired
            removed == s.Before \ s.After
            fresh == SelectSeq(s.Touch, LAMBDA x : x \notin expired)
        IN  /\ expired \subseteq removed
            /\ s.Key \in s.After
            /\ Cardinality(s.After) <= CacheSize
            /\ IF Cardinality(s.Before \ expired) >= CacheSize
               THEN removed \ expired = {Head(fresh)}
               ELSE removed \ expired = {}

\* A Set of a new key into a full cache with no expired entry evicted the
\* entry that was stored last but touched least recently, because a Get
\* had touched the entry stored first.
C21_Witness ==
    /\ SetNewIntoFull
    /\ cSetLog[1].Expired = {}
    /\ \E k \in cSetLog[1].Before :
          /\ k \notin cSetLog[1].After
          /\ \E j \in cSetLog[1].After \ {cSetLog[1].Key} :
                cLastSet[j].At < cLastSet[k].At

(***************************************************************************)
(* correlation.HistoryCache: the LRU cache of history reports              *)
(***************************************************************************)
\* Latest time the clock of the history cache reaches.
HistMaxClock == 2
\* c.maxAge, in ticks of the clock.
HistMaxAge == 1
\* c.maxSize
HistMaxSize == 3

\* The values of CacheKey.HeadSHA, CacheKey.BeadsHash and CacheKey.Options:
\* hexadecimal digests, as BuildCacheKey makes them.
HeadSHAs == {"a1", "b2"}
BeadsHashes == {"c3", "d4"}
OptionsHashes == {"e5"}
CacheKeys == [HeadSHA : HeadSHAs, BeadsHash : BeadsHashes, Options : OptionsHashes]
\* The reports callers store (pointers to HistoryReport).
Reports == {"report-1", "report-2"}

\* CacheKey.String
String(k) == k.HeadSHA \o ":" \o k.BeadsHash \o ":" \o k.Options

\* The loop of removeEntryLocked and moveToEndLocked: the order without the
\* first occurrence of the key.
RECURSIVE removeFromOrder(_, _)
removeFromOrder(q, keyStr) ==
    IF q = <<>> THEN <<>>
    ELSE IF Head(q) = keyStr THEN Tail(q)
    ELSE <<Head(q)>> \o removeFromOrder(Tail(q), keyStr)

\* A removal that leaves the key in the order slice.
removeEntryLockedMapOnly(c, keyStr) ==
    [entries |-> Delete(c.entries, keyStr), order |-> c.order]

\* removeEntryLocked
removeEntryLocked(c, keyStr) ==
    [entries |-> Delete(c.entries, keyStr),
     order |-> removeFromOrder(c.order, keyStr)]

\* moveToEndLocked
moveToEndLocked(q, keyStr) == Append(removeFromOrder(q, keyStr), keyStr)

\* An eviction that takes the newest entry.
evictNewestLocked(c) ==
    IF Len(c.order) = 0 THEN c
    ELSE [entries |-> Delete(c.entries, c.order[Len(c.order)]),
          order |-> SubSeq(c.order, 1, Len(c.order) - 1)]

\* evictOldestLocked
evictOldestLocked(c) ==
    IF Len(c.order) = 0 THEN c
    ELSE [entries |-> Delete(c.entries, c.order[1]),
          order |-> Tail(c.order)]

\* Get(key). AccessedAt is written and never read, and is left out.
HistoryGet ==
    \E key \in CacheKeys :
        LET keyStr == String(key)
            c == [entries |-> hEntries, order |-> hOrder]
            call == [Op |-> "Get", Key |-> key]
        IN  /\ IF keyStr \notin DOMAIN hEntries
               THEN /\ hLog' = <<call @@ [Report |-> Nil, Ok |-> FALSE]>>
                    /\ UNCHANGED <<hEntries, hOrder>>
               ELSE IF hNow - hEntries[keyStr].CreatedAt > HistMaxAge
               THEN /\ hEntries' = removeEntryLocked(c, keyStr).entries
                    /\ hOrder' = removeEntryLocked(c, keyStr).order
                    /\ hLog' = <<call @@ [Report |-> Nil, Ok |-> FALSE]>>
               ELSE /\ hOrder' = moveToEndLocked(hOrder, keyStr)
                    /\ hLog' = <<call @@ [Report |-> <<hEntries[keyStr].Report>>,
                                          Ok |-> TRUE]>>
                    /\ UNCHANGED hEntries
            /\ hTouch' = TouchedBy(hTouch, IF hLog'[1].Ok THEN {key} ELSE {},
                                   {k \in CacheKeys : String(k) \in DOMAIN hEntries'})
            /\ UNCHANGED hNow
            /\ UNCHANGED outsideHistory

\* Put(key, report)
HistoryPut ==
    \E key \in CacheKeys, report \in Reports :
        LET keyStr == String(key)
            now == hNow
            entry == [Key |-> key, Report |-> report, CreatedAt |-> now]
        IN  /\ IF keyStr \in DOMAIN hEntries
               THEN /\ hEntries' = Store(hEntries, keyStr,
                                         [hEntries[keyStr] EXCEPT !.Report = report,
                                                                  !.CreatedAt = now])
                    /\ hOrder' = moveToEndLocked(hOrder, keyStr)
               ELSE LET c == IF Cardinality(DOMAIN hEntries) >= HistMaxSize
                             THEN evictOldestLocked([entries |-> hEntries,
                                                     order |-> hOrder])
                             ELSE [entries |-> hEntries, order |-> hOrder]
                    IN  /\ hEntries' = Store(c.entries, keyStr, entry)
                        /\ hOrder' = Append(c.order, keyStr)
            /\ hLog' = <<[Op |-> "Put", Key |-> key,
                          Evicted |-> {hEntries[k] : k \in DOMAIN hEntries \ DOMAIN hEntries'}]>>
            /\ hTouch' = TouchedBy(hTouch, {key},
                                   {k \in CacheKeys : String(k) \in DOMAIN hEntries'})
            /\ UNCHANGED hNow
            /\ UNCHANGED outsideHistory

\* Invalidate()
HistoryInvalidate ==
    /\ hEntries' = <<>>
    /\ hOrder' = <<>>
    /\ hTouch' = <<>>
    /\ hLog' = <<>>
    /\ UNCHANGED hNow
    /\ UNCHANGED outsideHistory

\* removeEntryLocked of every key of the sequence toRemove, in its order.
RECURSIVE removeAllLocked(_, _)
removeAllLocked(c, toRemove) ==
    IF toRemove = <<>> THEN c
    ELSE removeAllLocked(removeEntryLocked(c, Head(toRemove)), Tail(toRemove))

\* InvalidateForHead(currentHead); toRemove holds the keys that do not match,
\* in the order in which the range over c.entries yields them.
InvalidateForHead ==
    \E currentHead \in HeadSHAs :
        \E toRemove \in RangeOrders([k \in {x \in DOMAIN hEntries :
                                hEntries[x].Key.HeadSHA # currentHead} |-> hEntries[k]]) :
            LET c == removeAllLocked([entries |-> hEntries, order |-> hOrder],
                                     toRemove)
            IN  /\ hEntries' = c.entries
                /\ hOrder' = c.order
                /\ hLog' = <<[Op |-> "InvalidateForHead", Head |-> currentHead,
                              Order |-> hOrder]>>
                /\ hTouch' = TouchedBy(hTouch, {},
                                       {k \in CacheKeys : String(k) \in DOMAIN hEntries'})
                /\ UNCHANGED hNow
                /\ UNCHANGED outsideHistory

\* Time passes.
HistoryTick ==
    /\ hNow < HistMaxClock
    /\ hNow' = hNow + 1
    /\ UNCHANGED <<hEntries, hOrder, hTouch, hLog>>
    /\ UNCHANGED outsideHistory

\* NewHistoryCacheWithOptions
HistoryInit ==
    /\ NewBackgroundWorker
    /\ NoRunHistory
    /\ file = Unreadable
    /\ NoTopK
    /\ NoAnalysis
    /\ NoGraphView
    /\ NoCache
    /\ NoVectorIndex
    /\ NoBoard
    /\ NoRanks
    /\ hEntries = <<>>
    /\ hOrder = <<>>
    /\ hNow = 0
    /\ hTouch = <<>>
    /\ hLog = <<>>

HistoryNext ==
    HistoryGet \/ HistoryPut \/ HistoryInvalidate \/ InvalidateForHead \/ HistoryTick

HistorySpec == HistoryInit /\ [][HistoryNext]_vars

\* The step is a Put of a key that is not cached into a cache that holds
\* maxSize entries.
PutNewAtCapacity ==
    /\ hLog' # <<>>
    /\ hLog'[1].Op = "Put"
    /\ String(hLog'[1].Key) \notin DOMAIN hEntries
    /\ Cardinality(DOMAIN hEntries) >= HistMaxSize

\* C22: when Put inserts a new key into a cache that is at capacity, exactly
\* one entry is evicted, and it is the entry that was least recently
\* accessed by a successful Get or a Put.
C22_PutEvictsLRU ==
    [][PutNewAtCapacity =>
        LET evicted == DOMAIN hEntries \ DOMAIN hEntries'
            keyStr == String(hLog'[1].Key)
        IN  /\ evicted = {String(Head(hTouch))}
            /\ keyStr \in DOMAIN hEntries'
            /\ hEntries'[keyStr].Key = hLog'[1].Key
            /\ \A k \in DOMAIN hEntries \ evicted : hEntries'[k] = hEntries[k]]_vars

\* A Put into a cache at capacity evicted an entry that was created later
\* than an entry that stays, because a successful Get had accessed the
\* older one.
C22_Witness ==
    /\ hLog # <<>>
    /\ hLog[1].Op = "Put"
    /\ Cardinality(DOMAIN hEntries) = HistMaxSize
    /\ \E e \in hLog[1].Evicted :
          \E j \in DOMAIN hEntries : hEntries[j].CreatedAt < e.CreatedAt

\* The step is a call of InvalidateForHead.
InvalidateForHeadStep ==
    /\ hLog' # <<>>
    /\ hLog'[1].Op = "InvalidateForHead"
    /\ hNow' = hNow

\* C23: InvalidateForHead(h) removes exactly the entries that do not match
\* the current HEAD: afterwards every remaining entry has HeadSHA equal to h,
\* and every entry with HeadSHA equal to h that was cached before the call is
\* still cached, with its report and its relative LRU position unchanged.
C23_InvalidateForHeadExact ==
    [][InvalidateForHeadStep =>
        LET h == hLog'[1].Head
            kept == {k \in DOMAIN hEntries : hEntries[k].Key.HeadSHA = h}
        IN  /\ \A k \in DOMAIN hEntries' : hEntries'[k].Key.HeadSHA = h
            /\ DOMAIN hEntries' = kept
            /\ \A k \in kept : hEntries'[k] = hEntries[k]
            /\ hOrder' = SelectSeq(hOrder, LAMBDA x : x \in kept)
            /\ hTouch' = SelectSeq(hTouch, LAMBDA x : x.HeadSHA = h)]_vars

\* InvalidateForHead removed an entry that was neither the oldest nor the
\* newest of the order, and kept the two entries around it.
C23_Witness ==
    /\ hLog # <<>>
    /\ hLog[1].Op = "InvalidateForHead"
    /\ Len(hLog[1].Order) >= 3
    /\ Len(hOrder) = Len(hLog[1].Order) - 1
    /\ Head(hOrder) = Head(hLog[1].Order)
    /\ hOrder[Len(hOrder)] = hLog[1].Order[Len(hLog[1].Order)]

(***************************************************************************)
(* search.SyncVectorIndex: bringing the vector index up to date            *)
(***************************************************************************)
\* Most documents of a call.
MaxDocs == 3
\* Largest batchSize of a call.
MaxBatch == 2
\* The batch size used when batchSize <= 0.
DefaultBatchSize == 32

\* The issue IDs of the documents, in the order of sort.Strings.
DocIDs == <<"bv-1", "bv-2", "bv-3", "bv-4">>
Texts == {"title one", "title two"}
\* docs: document text by issue ID.
DocMaps ==
    UNION {[S -> Texts] : S \in SUBSET {DocIDs[i] : i \in 1..MaxDocs}}

\* ComputeContentHash: a digest of the text.
ComputeContentHash(text) == IF text = "title one" THEN "5f2a" ELSE "c91e"
\* What a deterministic embedder returns for a text.
Embedding(text) == <<"vector of", text>>

\* The indexes earlier synchronisations can have left.
VectorIndexes ==
    {[id \in DOMAIN d |-> [ContentHash |-> ComputeContentHash(d[id]),
                           Vector |-> Embedding(d[id])]] : d \in DocMaps}

\* VectorIndex.Remove
Remove(idx, issueID) == Delete(idx, issueID)
\* VectorIndex.Upsert
Upsert(idx, issueID, ch, vec) ==
    Store(idx, issueID, [ContentHash |-> ch, Vector |-> vec])

\* sort.Strings of the keys of a map
sortedKeys(m) == SelectSeq(DocIDs, LAMBDA id : id \in DOMAIN m)

\* A removal of stale IDs that removes nothing.
keepStale(idx, existingIDs, docs) == [idx |-> idx, Removed |-> 0]

\* "Remove stale IDs": the index and stats.Removed after the loop over
\* existingIDs.
RECURSIVE removeStale(_, _, _)
removeStale(idx, existingIDs, docs) ==
    IF existingIDs = <<>> THEN [idx |-> idx, Removed |-> 0]
    ELSE LET r == removeStale(idx, Tail(existingIDs), docs)
         IN  IF Head(existingIDs) \notin DOMAIN docs
             THEN [idx |-> Remove(r.idx, Head(existingIDs)),
                   Removed |-> r.Removed + 1]
             ELSE r

\* A test that embeds every document again.
unchangedNever(idx, id, text) == FALSE

\* The test "ok && existing.ContentHash == ch" that skips a document.
unchanged(idx, id, text) ==
    id \in DOMAIN idx /\ idx[id].ContentHash = ComputeContentHash(text)

\* toEmbedIDs: the IDs of the documents that need embedding.
toEmbedIDs(idx, docs) ==
    SelectSeq(sortedKeys(docs), LAMBDA id : ~unchanged(idx, id, docs[id]))

\* The index after the first n documents of ids were embedded and upserted.
RECURSIVE upserted(_, _, _, _)
upserted(idx, docs, ids, n) ==
    IF n = 0 THEN idx
    ELSE Upsert(upserted(idx, docs, ids, n - 1), ids[n],
                ComputeContentHash(docs[ids[n]]), Embedding(docs[ids[n]]))

\* How a call can fail once the documents to embed are known: before the
\* document at offset At (from 0), because the context is done, Embed returns
\* an error or the wrong number of vectors, or Upsert returns an error.
Failures(n, batchSize) ==
    {f \in [At : 0..(n - 1), Kind : {"ctx", "embed", "count", "upsert"}] :
        f.Kind # "upsert" => f.At % batchSize = 0}

\* The slices of texts passed to embedder.Embed, in the order of the calls.
Asked(docs, ids, batchSize, fail) ==
    LET n == Len(ids)
        last == IF fail = Nil THEN n - 1
                ELSE IF fail.Kind = "ctx" THEN fail.At - 1 ELSE fail.At
        starts == SelectSeq([i \in 1..n |-> i - 1],
                            LAMBDA st : st % batchSize = 0 /\ st <= last)
        Min(a, b) == IF a < b THEN a ELSE b
    IN  [b \in DOMAIN starts |->
            [j \in 1..(Min(starts[b] + batchSize, n) - starts[b]) |->
                docs[ids[starts[b] + j]]]]

\* SyncVectorIndex(ctx, idx, embedder, docs, batchSize). sameDim: idx.Dim
\* equals embedder.Dim().
SyncVectorIndex ==
    /\ vSync = <<>>
    /\ \E docs \in DocMaps, size \in 0..MaxBatch, sameDim \in BOOLEAN :
        LET batchSize == IF size <= 0 THEN DefaultBatchSize ELSE size
            stale == removeStale(vIndex, sortedKeys(vIndex), docs)
            ids == toEmbedIDs(stale.idx, docs)
            call == [Docs |-> docs, Before |-> vIndex]
        IN  IF ~sameDim
            THEN /\ vSync' = <<call @@ [Err |-> TRUE, Asked |-> <<>>,
                                Stats |-> [Total |-> 0, Added |-> 0, Updated |-> 0,
                                           Removed |-> 0, Skipped |-> 0,
                                           Embedded |-> 0]]>>
                 /\ UNCHANGED vIndex
            ELSE \E fail \in Failures(Len(ids), batchSize) \cup {Nil} :
                    LET done == IF fail = Nil THEN Len(ids) ELSE fail.At
                        updated == Len(SelectSeq(ids, LAMBDA id : id \in DOMAIN stale.idx))
                    IN  /\ vIndex' = upserted(stale.idx, docs, ids, done)
                        /\ vSync' = <<call @@
                              [Err |-> fail # Nil,
                               Asked |-> Asked(docs, ids, batchSize, fail),
                               Stats |-> [Total |-> Cardinality(DOMAIN docs),
                                          Added |-> Len(ids) - updated,
                                          Updated |-> updated,
                                          Removed |-> stale.Removed,
                                          Skipped |-> Cardinality(DOMAIN docs) - Len(ids),
                                          Embedded |-> done]]>>
    /\ UNCHANGED outsideSync

\* An index left by earlier synchronisations, and no call made yet.
SyncInit ==
    /\ NewBackgroundWorker
    /\ NoRunHistory
    /\ file = Unreadable
    /\ NoTopK
    /\ NoAnalysis
    /\ NoGraphView
    /\ NoCache
    /\ NoHistoryCache
    /\ NoBoard
    /\ NoRanks
    /\ vIndex \in VectorIndexes
    /\ vSync = <<>>

SyncNext == SyncVectorIndex

SyncSpec == SyncInit /\ [][SyncNext]_vars

\* SyncVectorIndex has returned without error.
SyncSucceeded == vSync # <<>> /\ ~vSync[1].Err

\* C24: when SyncVectorIndex returns without error, the set of IDs in the
\* index equals the set of keys of docs, and every entry's content hash
\* equals the content hash of the corresponding document text.
C24_IndexMatchesDocs ==
    SyncSucceeded =>
        /\ DOMAIN vIndex = DOMAIN vSync[1].Docs
        /\ \A id \in DOMAIN vIndex :
              vIndex[id].ContentHash = ComputeContentHash(vSync[1].Docs[id])

\* A successful call removed a stale ID, added a new one and updated a
\* changed one.
C24_Witness ==
    /\ SyncSucceeded
    /\ vSync[1].Stats.Removed > 0
    /\ vSync[1].Stats.Added > 0
    /\ vSync[1].Stats.Updated > 0

\* The texts of all the slices the embedder was asked to embed, in the
\* order in which it was asked.
RECURSIVE AskedTexts(_)
AskedTexts(asked) ==
    IF asked = <<>> THEN <<>> ELSE Head(asked) \o AskedTexts(Tail(asked))

\* C25: the embedder is asked to embed exactly the documents that are new to
\* the index or whose content hash differs from the stored one, and on
\* success the statistics satisfy Added + Updated + Skipped = Total and
\* Embedded = Added + Updated.
C25_EmbedsOnlyChanged ==
    vSync # <<>> =>
        LET c == vSync[1]
            changed == {id \in DOMAIN c.Docs :
                           \/ id \notin DOMAIN c.Before
                           \/ c.Before[id].ContentHash # ComputeContentHash(c.Docs[id])}
            inOrder == SelectSeq(DocIDs, LAMBDA id : id \in changed)
            asked == AskedTexts(c.Asked)
        IN  /\ Len(asked) <= Len(inOrder)
            /\ \A i \in DOMAIN asked : asked[i] = c.Docs[inOrder[i]]
            /\ ~c.Err =>
                  /\ Len(asked) = Len(inOrder)
                  /\ c.Stats.Added + c.Stats.Updated + c.Stats.Skipped = c.Stats.Total
                  /\ c.Stats.Embedded = c.Stats.Added + c.Stats.Updated
                  /\ c.Stats.Total = Cardinality(DOMAIN c.Docs)
                  /\ c.Stats.Embedded = Cardinality(changed)

\* A successful call embedded two documents in two batches and skipped one.
C25_Witness ==
    /\ SyncSucceeded
    /\ Len(vSync[1].Asked) = 2
    /\ vSync[1].Stats.Embedded = 2
    /\ vSync[1].Stats.Skipped = 1

(***************************************************************************)
(* The statistics of a built snapshot                                      *)
(***************************************************************************)
\* The issue lists a snapshot is built from, with n[i] dependencies on the
\* issue at position i: every status, and dependencies of every type on the
\* issue itself, on another issue of the list or on an issue that is absent
\* from it.
SnapshotIssueLists(n) ==
    LET ids == {IssueIDs[i] : i \in DOMAIN IssueIDs}
        deps == [DependsOnID : ids \cup {MissingID}, Type : DependencyTypes]
        issuesOf(i) ==
            [ID : {IssueIDs[i]}, Status : {StatusOpen, StatusBlocked, StatusClosed},
             Dependencies : [1..n[i] -> deps]]
    IN  issuesOf(1) \X issuesOf(2)

\* NewSnapshotBuilder on a loaded issue list.
SnapshotInit ==
    /\ NewBackgroundWorker
    /\ NoRunHistory
    /\ file = Unreadable
    /\ NoTopK
    /\ NoAnalysis
    /\ NoCache
    /\ NoHistoryCache
    /\ NoVectorIndex
    /\ NoBoard
    /\ NoRanks
    /\ \E n \in {m \in (0..MaxDeps) \X (0..MaxDeps) : m[1] + m[2] <= MaxDeps} :
          gvIssues \in SnapshotIssueLists(n)
    /\ blockers = <<>>
    /\ dependents = <<>>
    /\ sortedIDs = <<>>
    /\ selectedIdx = 0
    /\ gvOut = <<>>

SnapshotNext == SnapshotBuildCall

SnapshotSpec == SnapshotInit /\ [][SnapshotNext]_vars

\* The issue at position i of the list has a blocking dependency on an issue
\* that exists in the list and is not closed.
HasOpenBlocker(issues, i) ==
    \E d \in DOMAIN issues[i].Dependencies :
        /\ issues[i].Dependencies[d].Type \in {DepBlocks, DepParentChild}
        /\ \E j \in DOMAIN issues :
              /\ issues[j].ID = issues[i].Dependencies[d].DependsOnID
              /\ issues[j].Status # StatusClosed

\* C26: in a built snapshot, CountClosed is the number of closed issues,
\* CountOpen the number of non-closed issues, and CountReady counts exactly
\* the non-closed issues that do not have status blocked and have no blocking
\* dependency on an issue that exists in the list and is not closed.
C26_SnapshotCounts ==
    (gvOut # <<>> /\ gvOut[1].Kind = "snapshot") =>
        LET closed == {i \in DOMAIN gvIssues : gvIssues[i].Status = StatusClosed}
            ready == {i \in DOMAIN gvIssues \ closed :
                         /\ gvIssues[i].Status # StatusBlocked
                         /\ ~HasOpenBlocker(gvIssues, i)}
        IN  /\ gvOut[1].CountClosed = Cardinality(closed)
            /\ gvOut[1].CountOpen = Len(gvIssues) - Cardinality(closed)
            /\ gvOut[1].CountReady = Cardinality(ready)

\* A snapshot was built from an open issue with two blocking dependencies,
\* one on an issue that is absent and one on a closed issue: it counts one
\* closed, one open and one ready issue.
C26_Witness ==
    /\ gvOut # <<>>
    /\ gvOut[1] = [Kind |-> "snapshot", CountOpen |-> 1, CountClosed |-> 1,
                   CountReady |-> 1]
    /\ \E i \in DOMAIN gvIssues :
          /\ gvIssues[i].Status = StatusOpen
          /\ Len(gvIssues[i].Dependencies) = 2
          /\ \A d \in DOMAIN gvIssues[i].Dependencies :
                gvIssues[i].Dependencies[d].Type = DepBlocks
          /\ \E d \in DOMAIN gvIssues[i].Dependencies :
                gvIssues[i].Dependencies[d].DependsOnID = MissingID
          /\ \E d \in DOMAIN gvIssues[i].Dependencies :
                /\ gvIssues[i].Dependencies[d].DependsOnID # MissingID
                /\ gvIssues[i].Dependencies[d].DependsOnID # gvIssues[i].ID

(***************************************************************************)
(* ui.BoardModel: the Kanban board                                         *)
(***************************************************************************)
\* Most issues on the board.
MaxIssues == 2
\* Largest magnitude of the visibleRows argument of PageUp and PageDown.
MaxVisible == 4
\* How many rows out of every column the model follows a selection.
MaxRow == 1

StatusInProgress == "in_progress"
\* A status that has no column.
StatusTombstone == "tombstone"
ColumnIndices == 0..3

\* The issues callers put on the board; Status is set per call.
BoardIssues ==
    <<[ID |-> "k-1", Priority |-> 2, CreatedAt |-> 1],
      [ID |-> "k-2", Priority |-> 1, CreatedAt |-> 2],
      [ID |-> "k-3", Priority |-> 1, CreatedAt |-> 3],
      [ID |-> "k-4", Priority |-> 0, CreatedAt |-> 4]>>

\* The issue slices: each issue is left out or has one of the statuses.
BoardIssueLists ==
    {SelectSeq([i \in 1..MaxIssues |-> BoardIssues[i] @@ [Status |-> st[i]]],
               LAMBDA issue : issue.Status # "")
        : st \in [1..MaxIssues -> {"", StatusOpen, StatusInProgress, StatusBlocked,
                                   StatusClosed, StatusTombstone}]}

\* The visibleRows arguments of PageUp and PageDown.
VisibleRows == (0 - MaxVisible)..MaxVisible

\* Integer division of Go: the quotient is truncated toward zero.
Quo(a, b) == IF a >= 0 THEN a \div b ELSE 0 - ((0 - a) \div b)

\* cols: the issues distributed into the columns by status, each column
\* sorted by sortIssuesByPriorityAndDate (less: lower priority value first,
\* then the later creation date first).
distribute(issues) ==
    LET status == [c \in ColumnIndices |->
                      CASE c = 0 -> StatusOpen
                        [] c = 1 -> StatusInProgress
                        [] c = 2 -> StatusBlocked
                        [] c = 3 -> StatusClosed]
    IN  [c \in ColumnIndices |->
            SortSeq(SelectSeq(issues, LAMBDA issue : issue.Status = status[c]),
                    LAMBDA a, b : IF a.Priority # b.Priority
                                  THEN a.Priority < b.Priority
                                  ELSE a.CreatedAt > b.CreatedAt)]

\* NewBoardModel(issues, theme)
NewBoardModel ==
    /\ columns = <<>>
    /\ \E issues \in BoardIssueLists :
          columns' = distribute(issues)
    /\ focusedCol' = 0
    /\ selectedRow' = [c \in ColumnIndices |-> 0]
    /\ UNCHANGED outsideBoard

\* SetIssues(issues)
SetIssues ==
    /\ columns # <<>>
    /\ \E issues \in BoardIssueLists :
          LET cols == distribute(issues)
          IN  /\ columns' = cols
              /\ selectedRow' =
                    [c \in ColumnIndices |->
                        IF selectedRow[c] >= Len(cols[c])
                        THEN (IF Len(cols[c]) > 0 THEN Len(cols[c]) - 1 ELSE 0)
                        ELSE selectedRow[c]]
    /\ UNCHANGED focusedCol
    /\ UNCHANGED outsideBoard

\* MoveDown()
MoveDown_Board ==
    /\ columns # <<>>
    /\ LET count == Len(columns[focusedCol])
       IN  IF count = 0 THEN UNCHANGED selectedRow
           ELSE IF selectedRow[focusedCol] < count - 1
           THEN selectedRow' = [selectedRow EXCEPT ![focusedCol] = @ + 1]
           ELSE UNCHANGED selectedRow
    /\ UNCHANGED <<columns, focusedCol>>
    /\ UNCHANGED outsideBoard

\* MoveUp()
MoveUp ==
    /\ columns # <<>>
    /\ IF selectedRow[focusedCol] > 0
       THEN selectedRow' = [selectedRow EXCEPT ![focusedCol] = @ - 1]
       ELSE UNCHANGED selectedRow
    /\ UNCHANGED <<columns, focusedCol>>
    /\ UNCHANGED outsideBoard

\* MoveRight()
MoveRight ==
    /\ columns # <<>>
    /\ IF focusedCol < 3 THEN focusedCol' = focusedCol + 1 ELSE UNCHANGED focusedCol
    /\ UNCHANGED <<columns, selectedRow>>
    /\ UNCHANGED outsideBoard

\* MoveLeft()
MoveLeft ==
    /\ columns # <<>>
    /\ IF focusedCol > 0 THEN focusedCol' = focusedCol - 1 ELSE UNCHANGED focusedCol
    /\ UNCHANGED <<columns, selectedRow>>
    /\ UNCHANGED outsideBoard

\* MoveToTop()
MoveToTop ==
    /\ columns # <<>>
    /\ selectedRow' = [selectedRow EXCEPT ![focusedCol] = 0]
    /\ UNCHANGED <<columns, focusedCol>>
    /\ UNCHANGED outsideBoard

\* MoveToBottom()
MoveToBottom ==
    /\ columns # <<>>
    /\ LET count == Len(columns[focusedCol])
       IN  IF count > 0
           THEN selectedRow' = [selectedRow EXCEPT ![focusedCol] = count - 1]
           ELSE UNCHANGED selectedRow
    /\ UNCHANGED <<columns, focusedCol>>
    /\ UNCHANGED outsideBoard

\* PageDown(visibleRows); the model stops following a selection that is
\* more than MaxRow rows out of the column.
PageDown ==
    /\ columns # <<>>
    /\ \E visibleRows \in VisibleRows :
          LET count == Len(columns[focusedCol])
              newRow == selectedRow[focusedCol] + Quo(visibleRows, 2)
          IN  IF count = 0 THEN UNCHANGED selectedRow
              ELSE /\ newRow >= 0 - MaxRow
                   /\ selectedRow' = [selectedRow EXCEPT ![focusedCol] =
                                         IF newRow >= count THEN count - 1 ELSE newRow]
    /\ UNCHANGED <<columns, focusedCol>>
    /\ UNCHANGED outsideBoard

\* PageUp(visibleRows)
PageUp ==
    /\ columns # <<>>
    /\ \E visibleRows \in VisibleRows :
          LET newRow == selectedRow[focusedCol] - Quo(visibleRows, 2)
          IN  /\ newRow <= MaxIssues - 1 + MaxRow
              /\ selectedRow' = [selectedRow EXCEPT ![focusedCol] =
                                    IF newRow < 0 THEN 0 ELSE newRow]
    /\ UNCHANGED <<columns, focusedCol>>
    /\ UNCHANGED outsideBoard

\* SelectedIssue(): a pointer to the issue, nil, or the panic of an index out
\* of range.
SelectedIssue ==
    LET col == columns[focusedCol]
        row == selectedRow[focusedCol]
    IN  IF Len(col) > 0 /\ row < Len(col)
        THEN (IF row < 0 THEN Panic ELSE <<col[row + 1]>>)
        ELSE Nil

\* No board is made yet.
BoardInit ==
    /\ NewBackgroundWorker
    /\ NoRunHistory
    /\ file = Unreadable
    /\ NoTopK
    /\ NoAnalysis
    /\ NoGraphView
    /\ NoCache
    /\ NoHistoryCache
    /\ NoVectorIndex
    /\ NoRanks
    /\ columns = <<>>
    /\ focusedCol = 0
    /\ selectedRow = <<>>

BoardNext ==
    \/ NewBoardModel
    \/ SetIssues
    \/ MoveDown_Board
    \/ MoveUp
    \/ MoveRight
    \/ MoveLeft
    \/ MoveToTop
    \/ MoveToBottom
    \/ PageDown
    \/ PageUp

BoardSpec == BoardInit /\ [][BoardNext]_vars

MaxRebuilds == 2

\* map[string]float64 and map[string]int over the issue IDs; a map may lack
\* an ID.
RankIDs == {IssueIDs[i] : i \in DOMAIN IssueIDs}
RankMaps == UNION {[S -> Scores] : S \in SUBSET RankIDs}
\* GraphStats, with the two ranked metrics kept: CriticalPathScore (the five
\* other float metrics go through computeFloatRanks as it does, and it also
\* orders sortedIDs) and InDegree (OutDegree goes through computeIntRanks
\* as it does).
GraphStats == [CriticalPathScore : RankMaps, InDegree : RankMaps]
\* g.insights.Stats: a pointer to the statistics, nil without insights.
StatsPtrs == {Nil} \cup {<<st>> : st \in GraphStats}
\* The issue lists shown: the issues of IssueIDs without dependencies.
RankIssueLists == {issues \in IssueLists : CountDeps(issues) = 0}

\* computeFloatRanks when the range over m visits the keys in "order": the
\* entries sorted by sort.Slice on the value alone, descending, and every
\* key given its 1-based position.
computeFloatRanks(m, order) ==
    LET ss == [i \in DOMAIN order |-> [Key |-> order[i], Value |-> m[order[i]]]]
        sorted == SortSlice(ss)
    IN  [k \in DOMAIN m |-> CHOOSE i \in DOMAIN sorted : sorted[i].Key = k]

\* computeIntRanks: the same steps on a map[string]int.
computeIntRanks(m, order) ==
    LET ss == [i \in DOMAIN order |-> [Key |-> order[i], Value |-> m[order[i]]]]
        sorted == SortSlice(ss)
    IN  [k \in DOMAIN m |-> CHOOSE i \in DOMAIN sorted : sorted[i].Key = k]

\* computeRankings: empty rank maps without insights, else the ranks of
\* every metric, each range over a metric map in an order of its own.
computeRankings(stats, orderCP, orderIn) ==
    IF stats = Nil
    THEN [rankCriticalPath |-> <<>>, rankInDegree |-> <<>>]
    ELSE [rankCriticalPath |->
              computeFloatRanks(stats[1].CriticalPathScore, orderCP),
          rankInDegree |-> computeIntRanks(stats[1].InDegree, orderIn)]

\* The position of an ID in the lexicographic order of the IDs.
IDOrder(id) == CHOOSE i \in DOMAIN IssueIDs : IssueIDs[i] = id

\* rebuildGraph lines 87-96: by CriticalPathScore, descending, then by ID.
sortByCriticalPath(ids, score) ==
    SortSeq(ids, LAMBDA a, b :
                    IF Lookup(score, a) # Lookup(score, b)
                    THEN Lookup(score, a) > Lookup(score, b)
                    ELSE IDOrder(a) < IDOrder(b))

\* rebuildGraph (NewGraphModel or SetIssues with the same issues and
\* insights): the relationships, computeRankings, the sorted IDs and the
\* selection.
rebuildGraph ==
    /\ Len(rankRuns) < MaxRebuilds
    /\ LET r == Relationships(DepRecords(gvIssues), Len(DepRecords(gvIssues)))
       IN  /\ blockers' = r.blockers
           /\ dependents' = r.dependents
    /\ \E orderCP \in RangeOrders(IF gvStats = Nil THEN <<>>
                                  ELSE gvStats[1].CriticalPathScore),
          orderIn \in RangeOrders(IF gvStats = Nil THEN <<>>
                                  ELSE gvStats[1].InDegree) :
          gvRanks' = computeRankings(gvStats, orderCP, orderIn)
    /\ LET ids == [i \in DOMAIN gvIssues |-> gvIssues[i].ID]
       IN  sortedIDs' = IF gvStats # Nil
                        THEN sortByCriticalPath(ids, gvStats[1].CriticalPathScore)
                        ELSE SortStrings(ids, 1)
    /\ selectedIdx' = IF selectedIdx >= Len(gvIssues) THEN 0 ELSE selectedIdx
    /\ rankRuns' = Append(rankRuns, gvRanks')
    /\ UNCHANGED <<gvIssues, gvOut, gvStats>>
    /\ UNCHANGED outsideRanks

\* Issues and insights are at hand; no view is built yet.
RankInit ==
    /\ NewBackgroundWorker
    /\ NoRunHistory
    /\ file = Unreadable
    /\ NoTopK
    /\ NoAnalysis
    /\ NoCache
    /\ NoHistoryCache
    /\ NoVectorIndex
    /\ NoBoard
    /\ gvIssues \in RankIssueLists
    /\ blockers = <<>>
    /\ dependents = <<>>
    /\ sortedIDs = <<>>
    /\ selectedIdx = 0
    /\ gvOut = <<>>
    /\ gvStats \in StatsPtrs
    /\ gvRanks = <<>>
    /\ rankRuns = <<>>

RankNext == rebuildGraph

RankSpec == RankInit /\ [][RankNext]_vars

\* C31: the per-metric ranks are deterministic: rebuilding the graph view
\* twice from identical issues and identical metric maps gives every issue
\* the same rank for every metric, also when metric values are equal.
C31_RanksDeterministic ==
    \A i, j \in DOMAIN rankRuns : rankRuns[i] = rankRuns[j]

====
